---- MODULE Spec2Model ----
(***************************************************************************)
(* The Intcode computer of aoc-2019-19/src/computer.rs (the final, widest  *)
(* variant of the machine) as a state machine.  Every method of Computer   *)
(* is an operator on a record `self` holding the struct's fields; the      *)
(* actions are the caller-facing operations and the positions of the       *)
(* fetch-execute loop of compute().                                        *)
(***************************************************************************)
EXTENDS Integers, Sequences, FiniteSets, TLC

VARIABLES
    computers,        \* id -> Computer (the struct's fields, plus `panicked`)
    pc,               \* where control is: "caller", "compute" (head of the
                      \* while loop of compute), "execute" (between
                      \* read_next_instruction and execute)
    call,             \* the caller operation in progress or last returned
    overflow_checks,  \* the build: TRUE = overflow panics, FALSE = wraps
    pending,          \* id -> input values the driver has not buffered yet
    nwrites,          \* number of caller write() calls made so far
    given,            \* id -> the program and the input values of the run
    drained,          \* id -> the output values the caller has taken so far
    script,           \* the caller operations a twin machine is to repeat
    locals            \* the local variables of the driver function that runs

machineVars == <<computers, pc, call>>
logVars == <<drained, script, locals>>
driverVars == <<pending, nwrites, given, drained, script, locals>>
vars == <<computers, pc, call, overflow_checks, pending, nwrites, given, drained, script,
         locals>>

----------------------------------------------------------------------------
(* Bounds of the model.                                                    *)

\* Intcode is i64; the model keeps the two's-complement shape at a width
\* TLC's integers can hold.
IntcodeMax == 32767
\* longest input queue the caller builds up with buffer_input
MaxQueue == 2
\* caller write() calls per run
MaxWrites == 1
\* highest address of the memory unit's read() and write() calls
MaxAddr == 4
\* longest memory the memory unit starts from
MaxMemLen == 3
\* number of input values of a split-delivery run
MaxFeed == 2
\* length of the enumerated short programs
ShortLen == 3
\* compute stops fetching once this many outputs are waiting to be drained
MaxOutputs == 3
\* calls the caller makes on one machine of a pair
MaxOps == 4

IntcodeMin == -IntcodeMax - 1
IntcodeModulus == 2 * (IntcodeMax + 1)

InRange(n) == IntcodeMin <= n /\ n <= IntcodeMax
Wrap(n) == ((n - IntcodeMin) % IntcodeModulus) + IntcodeMin

----------------------------------------------------------------------------
(* Constants of computer.rs.                                               *)

OP_ADD == 1
OP_MUL == 2
OP_STORE_INPUT == 3
OP_WRITE_OUTPUT == 4
OP_JUMP_IF_TRUE == 5
OP_JUMP_IF_FALSE == 6
OP_LESS_THAN == 7
OP_EQUALS == 8
OP_ADJUST_RELATIVE_BASE == 9
OP_HALT == 99

OP_PARAMETER_BASE == 10
OP_PARAMETER_BASE_POS == 3

PARAM_TYPE_POSITION == 0
PARAM_TYPE_IMMEDIATE == 1
PARAM_TYPE_RELATIVE == 2

\* enum ComputerState
ComputerState == {"Initial", "Running", "Halted", "AwaitingInput"}

\* enum Parameter
Position(v) == [mode |-> "Position", value |-> v]
Immediate(v) == [mode |-> "Immediate", value |-> v]
Relative(v) == [mode |-> "Relative", value |-> v]

\* Option<Op>: None, or Some(kind with its parameters)
NoOp == [kind |-> "None", params |-> <<>>]
SomeOp(kind, params) == [kind |-> kind, params |-> params]

----------------------------------------------------------------------------
(* Rust's integer arithmetic.                                              *)

\* a value-returning call: the value, or the panic that ended it
Ok(v) == [err |-> "", val |-> v]
Err(msg) == [err |-> msg, val |-> 0]

\* +, * and += on Intcode: exact when the result fits; otherwise a panic
\* in a build with overflow checks and the wrapped value in one without
Checked(n) ==
    IF InRange(n) THEN Ok(n)
    ELSE IF overflow_checks THEN Err("arithmetic overflow")
    ELSE Ok(Wrap(n))

\* % and / truncate toward zero
Rem(a, b) == IF a >= 0 THEN a % b ELSE -((-a) % b)
Quot(a, b) == IF a >= 0 THEN a \div b ELSE -((-a) \div b)

RECURSIVE Pow(_, _)
Pow(b, e) == IF e = 0 THEN 1 ELSE b * Pow(b, e - 1)

\* panic!/assert!/unwrap/expect: the run is aborted where it stands
Panic(self, msg) == [self EXCEPT !.panicked = msg]
Panicked(self) == self.panicked # ""

----------------------------------------------------------------------------
(* OpDecoder                                                               *)

opcode_last_digit(word) == Rem(word, OP_PARAMETER_BASE)

opcode(word) == Rem(word, Pow(OP_PARAMETER_BASE, OP_PARAMETER_BASE_POS - 1))

param_type_next_digit(word, argno) ==
    Rem(Quot(word, Pow(OP_PARAMETER_BASE, argno + OP_PARAMETER_BASE_POS)),
        OP_PARAMETER_BASE)

param_type(word, argno) ==
    Quot(Rem(word, Pow(OP_PARAMETER_BASE, argno + OP_PARAMETER_BASE_POS)),
         Pow(OP_PARAMETER_BASE, argno + OP_PARAMETER_BASE_POS - 1))

----------------------------------------------------------------------------
(* Computer                                                                *)

new(memory) ==
    [memory |-> memory,
     inputs |-> <<>>,
     ip |-> 0,
     state |-> "Initial",
     outputs |-> <<>>,
     op |-> NoOp,
     relative_base |-> 0,
     panicked |-> ""]

read_negative_as_zero(self, p) ==
    IF p >= 0 /\ p < Len(self.memory) THEN Ok(self.memory[p + 1])
    ELSE Ok(0)

read_off_by_one(self, p) ==
    IF ~(p >= 0) THEN Err("assertion failed: p >= 0")
    ELSE IF p < Len(self.memory) - 1 THEN Ok(self.memory[p + 1])
    ELSE Ok(0)

\* a cell beyond the extent reads as a Halt
read_beyond_as_halt(self, p) ==
    IF ~(p >= 0) THEN Err("assertion failed: p >= 0")
    ELSE IF p < Len(self.memory) THEN Ok(self.memory[p + 1])
    ELSE Ok(OP_HALT)

read(self, p) ==
    IF ~(p >= 0) THEN Err("assertion failed: p >= 0")
    ELSE IF p < Len(self.memory) THEN Ok(self.memory[p + 1])
    ELSE Ok(0)

\* a Relative parameter read as a Position parameter
deref_ignoring_base(self, param) ==
    CASE param.mode = "Position" -> read(self, param.value)
      [] param.mode = "Immediate" -> Ok(param.value)
      [] param.mode = "Relative" -> read(self, param.value)

deref(self, param) ==
    CASE param.mode = "Position" -> read(self, param.value)
      [] param.mode = "Immediate" -> Ok(param.value)
      [] param.mode = "Relative" ->
            LET addr == Checked(self.relative_base + param.value)
            IN IF addr.err # "" THEN addr ELSE read(self, addr.val)

\* the while loop of write, on a memory that is not empty: it pushes a
\* zero for as long as len - 1 < p, that is p + 1 - len zeroes in all
grow(memory, p) ==
    IF Len(memory) - 1 < p
    THEN memory \o [i \in 1..(p + 1 - Len(memory)) |-> 0]
    ELSE memory

\* memory.len() - 1 is a usize subtraction: on an empty memory it panics
\* with overflow checks, and without them wraps to usize::MAX, the loop
\* body never runs and get_mut(p).unwrap() panics on None
write(self, p, n) ==
    IF ~(p >= 0) THEN Panic(self, "assertion failed: p >= 0")
    ELSE IF Len(self.memory) = 0
         THEN Panic(self, IF overflow_checks
                          THEN "attempt to subtract with overflow"
                          ELSE "called Option::unwrap() on a None value")
         ELSE [self EXCEPT !.memory = [grow(self.memory, p) EXCEPT ![p + 1] = n]]

adjust_relative_base_set(self, pa) ==
    LET a == deref(self, pa)
    IN IF a.err # "" THEN Panic(self, a.err)
       ELSE [self EXCEPT !.relative_base = a.val]

adjust_relative_base(self, pa) ==
    LET a == deref(self, pa)
        sum == Checked(self.relative_base + a.val)
    IN IF a.err # "" THEN Panic(self, a.err)
       ELSE IF sum.err # "" THEN Panic(self, sum.err)
       ELSE [self EXCEPT !.relative_base = sum.val]

\* the closures handed to binary_op by execute
F_mul_as_add(kind, a, b) ==
    CASE kind = "Add" -> Checked(a + b)
      [] kind = "Mul" -> Checked(a + b)
      [] kind = "LessThan" -> Ok(IF a < b THEN 1 ELSE 0)
      [] kind = "Equals" -> Ok(IF a = b THEN 1 ELSE 0)

F_less_or_equal(kind, a, b) ==
    CASE kind = "Add" -> Checked(a + b)
      [] kind = "Mul" -> Checked(a * b)
      [] kind = "LessThan" -> Ok(IF a <= b THEN 1 ELSE 0)
      [] kind = "Equals" -> Ok(IF a = b THEN 1 ELSE 0)

F(kind, a, b) ==
    CASE kind = "Add" -> Checked(a + b)
      [] kind = "Mul" -> Checked(a * b)
      [] kind = "LessThan" -> Ok(IF a < b THEN 1 ELSE 0)
      [] kind = "Equals" -> Ok(IF a = b THEN 1 ELSE 0)

binary_op(self, pa, pb, pc_, kind) ==
    LET a == deref(self, pa)
        b == deref(self, pb)
        c == F(kind, a.val, b.val)
        target == Checked(pc_.value + self.relative_base)
    IN IF a.err # "" THEN Panic(self, a.err)
       ELSE IF b.err # "" THEN Panic(self, b.err)
       ELSE IF c.err # "" THEN Panic(self, c.err)
       ELSE CASE pc_.mode = "Position" -> write(self, pc_.value, c.val)
              [] pc_.mode = "Relative" ->
                    IF target.err # "" THEN Panic(self, target.err)
                    ELSE write(self, target.val, c.val)
              [] OTHER ->
                    Panic(self, "Binary op arg c must be Position or Relative type")

\* the call also sends the machine back to the first instruction
buffer_input_restart(self, input) ==
    [self EXCEPT !.inputs = Append(self.inputs, input), !.ip = 0]

buffer_input(self, input) ==
    [self EXCEPT !.inputs = Append(self.inputs, input)]

\* pop_back in place of pop_front
consume_output_newest(self) ==
    IF self.outputs = <<>> THEN [m |-> self, val |-> <<>>]
    ELSE [m |-> [self EXCEPT !.outputs = SubSeq(self.outputs, 1, Len(self.outputs) - 1)],
          val |-> <<self.outputs[Len(self.outputs)]>>]

\* Option<Intcode> is a sequence of length 0 or 1
consume_output(self) ==
    IF self.outputs = <<>> THEN [m |-> self, val |-> <<>>]
    ELSE [m |-> [self EXCEPT !.outputs = Tail(self.outputs)],
          val |-> <<Head(self.outputs)>>]

\* the drain also drops the instruction held
consume_output_buffer_reset(self) ==
    [m |-> [self EXCEPT !.outputs = <<>>, !.op = NoOp], val |-> self.outputs]

\* the queue copied out in place of swapped out
consume_output_buffer_copy(self) ==
    [m |-> self, val |-> self.outputs]

consume_output_buffer(self) ==
    [m |-> [self EXCEPT !.outputs = <<>>], val |-> self.outputs]

is_awaiting_input(self) == "AwaitingInput" = self.state

is_halted(self) == "Halted" = self.state

jump_if_false(self, pa, pb) ==
    LET cond == deref(self, pa)
        addr == deref(self, pb)
    IN IF cond.err # "" THEN Panic(self, cond.err)
       ELSE IF cond.val = 0
            THEN IF addr.err # "" THEN Panic(self, addr.err)
                 ELSE [self EXCEPT !.ip = addr.val]
            ELSE self

jump_if_true_always(self, pa, pb) ==
    LET cond == deref(self, pa)
        addr == deref(self, pb)
    IN IF cond.err # "" THEN Panic(self, cond.err)
       ELSE IF addr.err # "" THEN Panic(self, addr.err)
       ELSE [self EXCEPT !.ip = addr.val]

jump_if_true(self, pa, pb) ==
    LET cond == deref(self, pa)
        addr == deref(self, pb)
    IN IF cond.err # "" THEN Panic(self, cond.err)
       ELSE IF cond.val # 0
            THEN IF addr.err # "" THEN Panic(self, addr.err)
                 ELSE [self EXCEPT !.ip = addr.val]
            ELSE self

\* a call that changes self and returns a value: m is self afterwards
\* (panicked when the call did not return)
read_word_and_advance_by_two(self) ==
    LET n == read(self, self.ip)
        next == Checked(self.ip + 2)
    IN IF n.err # "" THEN [m |-> Panic(self, n.err), val |-> 0]
       ELSE IF next.err # "" THEN [m |-> Panic(self, next.err), val |-> 0]
       ELSE [m |-> [self EXCEPT !.ip = next.val], val |-> n.val]

read_word_and_advance(self) ==
    LET n == read(self, self.ip)
        next == Checked(self.ip + 1)
    IN IF n.err # "" THEN [m |-> Panic(self, n.err), val |-> 0]
       ELSE IF next.err # "" THEN [m |-> Panic(self, next.err), val |-> 0]
       ELSE [m |-> [self EXCEPT !.ip = next.val], val |-> n.val]

read_op_and_advance(self) == read_word_and_advance(self)

read_param_and_advance_lenient(self, ptype) ==
    LET r == read_word_and_advance(self)
    IN IF Panicked(r.m) THEN r
       ELSE CASE ptype = PARAM_TYPE_IMMEDIATE -> [m |-> r.m, val |-> Immediate(r.val)]
              [] ptype = PARAM_TYPE_RELATIVE -> [m |-> r.m, val |-> Relative(r.val)]
              [] OTHER -> [m |-> r.m, val |-> Position(r.val)]

read_param_and_advance(self, ptype) ==
    LET r == read_word_and_advance(self)
    IN IF Panicked(r.m) THEN r
       ELSE CASE ptype = PARAM_TYPE_POSITION -> [m |-> r.m, val |-> Position(r.val)]
              [] ptype = PARAM_TYPE_IMMEDIATE -> [m |-> r.m, val |-> Immediate(r.val)]
              [] ptype = PARAM_TYPE_RELATIVE -> [m |-> r.m, val |-> Relative(r.val)]
              [] OTHER -> [m |-> Panic(r.m, "Unknown parameter type"), val |-> 0]

\* pop_back in place of pop_front
read_input_newest(self) ==
    IF self.inputs = <<>> THEN [m |-> self, val |-> <<>>]
    ELSE [m |-> [self EXCEPT !.inputs = SubSeq(self.inputs, 1, Len(self.inputs) - 1)],
          val |-> <<self.inputs[Len(self.inputs)]>>]

read_input(self) ==
    IF self.inputs = <<>> THEN [m |-> self, val |-> <<>>]
    ELSE [m |-> [self EXCEPT !.inputs = Tail(self.inputs)],
          val |-> <<Head(self.inputs)>>]

\* the macro op_read_params!(kind, count): parameters argno .. count-1 are
\* read left to right, each one's type checked as it is read
RECURSIVE op_read_params_inner(_, _, _, _, _)
op_read_params_inner(self, word, argno, count, acc) ==
    IF argno = count THEN [m |-> self, val |-> acc]
    ELSE LET r == read_param_and_advance(self, param_type(word, argno))
         IN IF Panicked(r.m) THEN [m |-> r.m, val |-> acc]
            ELSE op_read_params_inner(r.m, word, argno + 1, count, Append(acc, r.val))

op_read_params(self, word, kind, count) ==
    LET r == op_read_params_inner(self, word, 0, count, <<>>)
    IN IF Panicked(r.m) THEN r.m
       ELSE [r.m EXCEPT !.op = SomeOp(kind, r.val)]

read_next_instruction(self) ==
    LET r == read_op_and_advance(self)
        code == opcode(r.val)
    IN IF Panicked(r.m) THEN r.m
       ELSE CASE code = OP_ADD -> op_read_params(r.m, r.val, "Add", 3)
              [] code = OP_MUL -> op_read_params(r.m, r.val, "Mul", 3)
              [] code = OP_STORE_INPUT -> op_read_params(r.m, r.val, "StoreInput", 1)
              [] code = OP_WRITE_OUTPUT -> op_read_params(r.m, r.val, "WriteOutput", 1)
              [] code = OP_JUMP_IF_TRUE -> op_read_params(r.m, r.val, "JumpIfTrue", 2)
              [] code = OP_JUMP_IF_FALSE -> op_read_params(r.m, r.val, "JumpIfFalse", 2)
              [] code = OP_LESS_THAN -> op_read_params(r.m, r.val, "LessThan", 3)
              [] code = OP_EQUALS -> op_read_params(r.m, r.val, "Equals", 3)
              [] code = OP_ADJUST_RELATIVE_BASE ->
                    op_read_params(r.m, r.val, "AdjustRelativeBase", 1)
              [] code = OP_HALT -> [r.m EXCEPT !.op = SomeOp("Halt", <<>>)]
              [] OTHER -> Panic(r.m, "Unknown opcode")

store_input_rewind(self, pa) ==
    LET r == read_input(self)
        target == Checked(pa.value + r.m.relative_base)
    IN IF r.val # <<>>
       THEN CASE pa.mode = "Position" -> write(r.m, pa.value, r.val[1])
              [] pa.mode = "Relative" ->
                    IF target.err # "" THEN Panic(r.m, target.err)
                    ELSE write(r.m, target.val, r.val[1])
              [] OTHER -> Panic(r.m, "StoreInput arg0 must be Position or Relative")
       ELSE [self EXCEPT !.state = "AwaitingInput", !.ip = self.ip - 2]

store_input_skip_immediate(self, pa) ==
    LET r == read_input(self)
        target == Checked(pa.value + r.m.relative_base)
    IN IF r.val # <<>>
       THEN CASE pa.mode = "Position" -> write(r.m, pa.value, r.val[1])
              [] pa.mode = "Relative" ->
                    IF target.err # "" THEN Panic(r.m, target.err)
                    ELSE write(r.m, target.val, r.val[1])
              [] OTHER -> r.m
       ELSE [self EXCEPT !.state = "AwaitingInput"]

\* the instruction held is dropped when the machine blocks
store_input_forget(self, pa) ==
    LET r == read_input(self)
        target == Checked(pa.value + r.m.relative_base)
    IN IF r.val # <<>>
       THEN CASE pa.mode = "Position" -> write(r.m, pa.value, r.val[1])
              [] pa.mode = "Relative" ->
                    IF target.err # "" THEN Panic(r.m, target.err)
                    ELSE write(r.m, target.val, r.val[1])
              [] OTHER -> Panic(r.m, "StoreInput arg0 must be Position or Relative")
       ELSE [self EXCEPT !.state = "AwaitingInput", !.op = NoOp]

store_input(self, pa) ==
    LET r == read_input(self)
        target == Checked(pa.value + r.m.relative_base)
    IN IF r.val # <<>>
       THEN CASE pa.mode = "Position" -> write(r.m, pa.value, r.val[1])
              [] pa.mode = "Relative" ->
                    IF target.err # "" THEN Panic(r.m, target.err)
                    ELSE write(r.m, target.val, r.val[1])
              [] OTHER -> Panic(r.m, "StoreInput arg0 must be Position or Relative")
       ELSE [self EXCEPT !.state = "AwaitingInput"]

write_output(self, pa) ==
    LET value == deref(self, pa)
    IN IF value.err # "" THEN Panic(self, value.err)
       ELSE [self EXCEPT !.outputs = Append(self.outputs, value.val)]

halt_then_continue(self) == self

halt(self) == [self EXCEPT !.state = "Halted"]

execute(self) ==
    LET p == self.op.params
        kind == self.op.kind
    IN CASE kind = "None" -> Panic(self, "expect op to be loaded")
         [] kind \in {"Add", "Mul", "LessThan", "Equals"} ->
               binary_op(self, p[1], p[2], p[3], kind)
         [] kind = "StoreInput" -> store_input(self, p[1])
         [] kind = "WriteOutput" -> write_output(self, p[1])
         [] kind = "JumpIfTrue" -> jump_if_true(self, p[1], p[2])
         [] kind = "JumpIfFalse" -> jump_if_false(self, p[1], p[2])
         [] kind = "AdjustRelativeBase" -> adjust_relative_base(self, p[1])
         [] kind = "Halt" -> halt(self)

result_addr0(self) ==
    IF self.state # "Halted"
    THEN [m |-> Panic(self, "assertion failed: Halted == state"), val |-> 0]
    ELSE [m |-> self, val |-> read(self, 0).val]

\* iter().next() in place of iter().last()
result_last_output_first(self) ==
    IF self.state # "Halted"
    THEN [m |-> Panic(self, "assertion failed: Halted == state"), val |-> 0]
    ELSE IF self.outputs = <<>>
         THEN [m |-> Panic(self, "called Option::unwrap() on a None value"), val |-> 0]
         ELSE [m |-> self, val |-> self.outputs[1]]

result_last_output(self) ==
    IF self.state # "Halted"
    THEN [m |-> Panic(self, "assertion failed: Halted == state"), val |-> 0]
    ELSE IF self.outputs = <<>>
         THEN [m |-> Panic(self, "called Option::unwrap() on a None value"), val |-> 0]
         ELSE [m |-> self, val |-> self.outputs[Len(self.outputs)]]

\* resume and start up to their call of compute(); the loop of compute
\* is the actions ComputeFetch, ComputeExecute and ComputeReturn
resume_redecode(self) ==
    IF self.state # "AwaitingInput"
    THEN Panic(self, "assertion failed: AwaitingInput == state")
    ELSE IF Len(self.inputs) = 0
         THEN Panic(self, "assertion failed: 0 != inputs.len()")
         ELSE [self EXCEPT !.state = "Running"]

resume_no_input_assert(self) ==
    IF self.state # "AwaitingInput"
    THEN Panic(self, "assertion failed: AwaitingInput == state")
    ELSE execute([self EXCEPT !.state = "Running"])

resume_unchecked(self) ==
    IF ~(0 # Len(self.inputs))
    THEN Panic(self, "assertion failed: 0 != inputs.len()")
    ELSE execute([self EXCEPT !.state = "Running"])

resume(self) ==
    IF self.state # "AwaitingInput"
    THEN Panic(self, "assertion failed: AwaitingInput == state")
    ELSE IF ~(0 # Len(self.inputs))
         THEN Panic(self, "assertion failed: 0 != inputs.len()")
         ELSE execute([self EXCEPT !.state = "Running"])

start_unchecked(self) == [self EXCEPT !.state = "Running"]

start(self) ==
    IF self.state # "Initial"
    THEN Panic(self, "assertion failed: Initial == state")
    ELSE IF ~(0 = self.ip)
         THEN Panic(self, "assertion failed: 0 == ip")
         ELSE [self EXCEPT !.state = "Running"]

start_or_resume_always_start(self) == start_unchecked(self)

start_or_resume(self) ==
    CASE self.state = "Initial" -> start(self)
      [] self.state = "AwaitingInput" -> resume(self)
      [] OTHER -> Panic(self, "unexpected state")

\* the condition of the while loop of compute
compute_once(self) == FALSE

compute_continues(self) == self.state = "Running"

----------------------------------------------------------------------------
(* Programs and caller inputs the model runs.                              *)

\* the examples of aoc-2019-05 (position-mode equality test, echo) and
\* small programs that block, grow memory, loop, use the relative base
\* or fault
Catalogue ==
    {<<>>,
     <<99>>,
     <<3, 0, 4, 0, 99>>,
     <<3, 9, 8, 9, 10, 9, 4, 9, 99, -1, 8>>,
     <<3, 0, 3, 7, 1, 0, 7, 0, 4, 0, 99>>,
     <<103, 0, 99>>,
     <<109, 2, 203, 0, 204, 0, 99>>,
     <<109, -1, 203, 0, 99>>,
     <<3, 0, 1105, 1, 0>>,
     <<3, 3, 1105, 0, 7, 99, 0, 104, 5, 99>>,
     <<4, -1, 99>>,
     <<1101, 1, 1, 7, 4, 7, 99>>}

Words == {0, 3, 4, 99, 203, 1105}
ShortPrograms == [1..ShortLen -> Words]

InputVals == {-1, 0, 8}
FeedVals == {-1, 8}
WriteCases == {<<-1, 0>>, <<0, 99>>, <<1, 3>>, <<8, 8>>}

RunCalls == {"start", "resume", "start_or_resume"}

\* a caller operation: its name, arguments and return value, and the state
\* the machine was in when it was made
Call(name, from, args, ret) ==
    [name |-> name, from |-> from, args |-> args, ret |-> ret]

\* control after a call or step on self: aborted once it panicked
After(self, next) == IF Panicked(self) THEN "aborted" ELSE next

\* what the run of each machine was given: the program handed to new() and
\* the input values its driver will buffer
Given(inputs) ==
    [id \in DOMAIN computers |-> [program |-> computers[id].memory, inputs |-> inputs]]

\* the caller has taken no output yet, no operation awaits a twin, and no
\* driver function is running
NoLog ==
    /\ drained = [id \in DOMAIN computers |-> <<>>]
    /\ script = <<>>
    /\ locals = <<>>

----------------------------------------------------------------------------
(* Caller operations on machine id.                                        *)

New(ids, programs) ==
    /\ \E prog \in programs :
          /\ computers = [id \in ids |-> new(prog)]
          /\ call = [id \in ids |-> Call("new", "", <<prog>>, <<>>)]
    /\ pc = [id \in ids |-> "caller"]
    /\ overflow_checks \in BOOLEAN

\* one input queue shared by all machines
BufferInputShared(id, input) ==
    /\ pc[id] = "caller"
    /\ Len(computers[id].inputs) < MaxQueue
    /\ computers' = [j \in DOMAIN computers |-> buffer_input(computers[j], input)]
    /\ call' = [call EXCEPT ![id] = Call("buffer_input", computers[id].state, <<input>>, <<>>)]
    /\ UNCHANGED <<pc, overflow_checks>>

\* the value queued is not always the value given
BufferInputAny(id, input) ==
    /\ pc[id] = "caller"
    /\ Len(computers[id].inputs) < MaxQueue
    /\ \E v \in {input, 0} :
          computers' = [computers EXCEPT ![id] = buffer_input(@, v)]
    /\ call' = [call EXCEPT ![id] = Call("buffer_input", computers[id].state, <<input>>, <<>>)]
    /\ UNCHANGED <<pc, overflow_checks>>

BufferInput(id, input) ==
    /\ pc[id] = "caller"
    /\ Len(computers[id].inputs) < MaxQueue
    /\ computers' = [computers EXCEPT ![id] = buffer_input(@, input)]
    /\ call' = [call EXCEPT ![id] = Call("buffer_input", computers[id].state, <<input>>, <<>>)]
    /\ UNCHANGED <<pc, overflow_checks>>

Write(id, p, n) ==
    /\ pc[id] = "caller"
    /\ LET self == write(computers[id], p, n)
       IN /\ computers' = [computers EXCEPT ![id] = self]
          /\ pc' = [pc EXCEPT ![id] = After(self, "caller")]
    /\ call' = [call EXCEPT ![id] = Call("write", computers[id].state, <<p, n>>, <<>>)]
    /\ UNCHANGED overflow_checks

ConsumeOutput(id) ==
    /\ pc[id] = "caller"
    /\ LET r == consume_output(computers[id])
       IN /\ computers' = [computers EXCEPT ![id] = r.m]
          /\ call' = [call EXCEPT ![id] = Call("consume_output", computers[id].state, <<>>, r.val)]
    /\ UNCHANGED <<pc, overflow_checks>>

ConsumeOutputBuffer(id) ==
    /\ pc[id] = "caller"
    /\ LET r == consume_output_buffer(computers[id])
       IN /\ computers' = [computers EXCEPT ![id] = r.m]
          /\ call' = [call EXCEPT ![id] = Call("consume_output_buffer", computers[id].state, <<>>, r.val)]
    /\ UNCHANGED <<pc, overflow_checks>>

Start(id) ==
    /\ pc[id] = "caller"
    /\ LET self == start(computers[id])
       IN /\ computers' = [computers EXCEPT ![id] = self]
          /\ pc' = [pc EXCEPT ![id] = After(self, "compute")]
    /\ call' = [call EXCEPT ![id] = Call("start", computers[id].state, <<>>, <<>>)]
    /\ UNCHANGED overflow_checks

Resume(id) ==
    /\ pc[id] = "caller"
    /\ LET self == resume(computers[id])
       IN /\ computers' = [computers EXCEPT ![id] = self]
          /\ pc' = [pc EXCEPT ![id] = After(self, "compute")]
    /\ call' = [call EXCEPT ![id] = Call("resume", computers[id].state, <<>>, <<>>)]
    /\ UNCHANGED overflow_checks

IsHalted(id) ==
    /\ pc[id] = "caller"
    /\ call' = [call EXCEPT ![id] =
                  Call("is_halted", computers[id].state, <<>>, <<is_halted(computers[id])>>)]
    /\ UNCHANGED <<computers, pc, overflow_checks>>

IsAwaitingInput(id) ==
    /\ pc[id] = "caller"
    /\ call' = [call EXCEPT ![id] =
                  Call("is_awaiting_input", computers[id].state, <<>>,
                       <<is_awaiting_input(computers[id])>>)]
    /\ UNCHANGED <<computers, pc, overflow_checks>>

ResultAddr0(id) ==
    /\ pc[id] = "caller"
    /\ LET r == result_addr0(computers[id])
       IN /\ computers' = [computers EXCEPT ![id] = r.m]
          /\ pc' = [pc EXCEPT ![id] = After(r.m, "caller")]
          /\ call' = [call EXCEPT ![id] =
                        Call("result_addr0", computers[id].state, <<>>,
                             IF Panicked(r.m) THEN <<>> ELSE <<r.val>>)]
    /\ UNCHANGED overflow_checks

ResultLastOutput(id) ==
    /\ pc[id] = "caller"
    /\ LET r == result_last_output(computers[id])
       IN /\ computers' = [computers EXCEPT ![id] = r.m]
          /\ pc' = [pc EXCEPT ![id] = After(r.m, "caller")]
          /\ call' = [call EXCEPT ![id] =
                        Call("result_last_output", computers[id].state, <<>>,
                             IF Panicked(r.m) THEN <<>> ELSE <<r.val>>)]
    /\ UNCHANGED overflow_checks

StartOrResume(id) ==
    /\ pc[id] = "caller"
    /\ LET self == start_or_resume(computers[id])
       IN /\ computers' = [computers EXCEPT ![id] = self]
          /\ pc' = [pc EXCEPT ![id] = After(self, "compute")]
    /\ call' = [call EXCEPT ![id] = Call("start_or_resume", computers[id].state, <<>>, <<>>)]
    /\ UNCHANGED overflow_checks

----------------------------------------------------------------------------
(* The loop of compute(), entered by start and resume.                     *)

\* one turn of the loop up to execute: the condition holds and the next
\* instruction is read
FetchNext(id) ==
    /\ pc[id] = "compute"
    /\ compute_continues(computers[id])
    /\ LET self == read_next_instruction(computers[id])
       IN /\ computers' = [computers EXCEPT ![id] = self]
          /\ pc' = [pc EXCEPT ![id] = After(self, "execute")]
    /\ UNCHANGED <<call, overflow_checks>>

\* the same, for as long as fewer than MaxOutputs outputs wait to be drained
ComputeFetch(id) ==
    /\ Len(computers[id].outputs) < MaxOutputs
    /\ FetchNext(id)

ComputeExecute(id) ==
    /\ pc[id] = "execute"
    /\ LET self == execute(computers[id])
       IN /\ computers' = [computers EXCEPT ![id] = self]
          /\ pc' = [pc EXCEPT ![id] = After(self, "compute")]
    /\ UNCHANGED <<call, overflow_checks>>

ComputeReturn(id) ==
    /\ pc[id] = "compute"
    /\ ~compute_continues(computers[id])
    /\ pc' = [pc EXCEPT ![id] = "caller"]
    /\ UNCHANGED <<computers, call, overflow_checks>>

----------------------------------------------------------------------------
(* Spec: one machine, driven by a caller free to make any call whenever    *)
(* control is with it.                                                     *)

Init ==
    /\ New({0}, Catalogue)
    /\ pending = [id \in {0} |-> <<>>]
    /\ nwrites = 0
    /\ given = Given(<<>>)
    /\ NoLog

CallerWrite ==
    /\ nwrites < MaxWrites
    /\ \E w \in WriteCases : Write(0, w[1], w[2])
    /\ nwrites' = nwrites + 1
    /\ UNCHANGED <<pending, given, logVars>>

Next ==
    \/ (\E input \in InputVals : BufferInput(0, input)) /\ UNCHANGED driverVars
    \/ CallerWrite
    \/ ConsumeOutput(0) /\ UNCHANGED driverVars
    \/ ConsumeOutputBuffer(0) /\ UNCHANGED driverVars
    \/ Start(0) /\ UNCHANGED driverVars
    \/ Resume(0) /\ UNCHANGED driverVars
    \/ StartOrResume(0) /\ UNCHANGED driverVars
    \/ ComputeFetch(0) /\ UNCHANGED driverVars
    \/ ComputeExecute(0) /\ UNCHANGED driverVars
    \/ ComputeReturn(0) /\ UNCHANGED driverVars

Spec == Init /\ [][Next]_vars

TypeOK ==
    \A id \in DOMAIN computers :
        /\ computers[id].state \in ComputerState
        /\ pc[id] \in {"caller", "compute", "execute", "aborted"}
        /\ Panicked(computers[id]) <=> pc[id] = "aborted"

----------------------------------------------------------------------------
(* SpecSplit: the same program and the same input values run twice.  Run 0 *)
(* has every value buffered before start(); run 1 is given them a few at a *)
(* time, buffering one or more whenever it is blocked and then calling     *)
(* resume().  The two runs are separate runs of the program: run 1 begins  *)
(* when run 0 has ended.                                                   *)

Feeds == UNION {[1..n -> FeedVals] : n \in 0..MaxFeed}

\* the run has ended: it panicked, halted, or is blocked with every input
\* value delivered and consumed
Done(id) ==
    \/ pc[id] = "aborted"
    \/ /\ pc[id] = "caller"
       /\ \/ computers[id].state = "Halted"
          \/ /\ computers[id].state = "AwaitingInput"
             /\ pending[id] = <<>>
             /\ computers[id].inputs = <<>>

Turn(id) == ~Done(id) /\ (id = 1 => Done(0))

SplitInit ==
    /\ New({0, 1}, Catalogue \cup ShortPrograms)
    /\ \E feed \in Feeds : pending = [id \in {0, 1} |-> feed]
    /\ nwrites = 0
    /\ given = Given(pending[0])
    /\ NoLog

SplitDeliver(id) ==
    /\ Turn(id)
    /\ pending[id] # <<>>
    /\ computers[id].state \in {"Initial", "AwaitingInput"}
    /\ BufferInput(id, Head(pending[id]))
    /\ pending' = [pending EXCEPT ![id] = Tail(@)]
    /\ UNCHANGED <<nwrites, given, logVars>>

OneShotStart ==
    /\ Turn(0)
    /\ pending[0] = <<>>
    /\ computers[0].state = "Initial"
    /\ Start(0)
    /\ UNCHANGED driverVars

SplitStart ==
    /\ Turn(1)
    /\ computers[1].state = "Initial"
    /\ Start(1)
    /\ UNCHANGED driverVars

SplitResume ==
    /\ Turn(1)
    /\ computers[1].state = "AwaitingInput"
    /\ computers[1].inputs # <<>>
    /\ Resume(1)
    /\ UNCHANGED driverVars

SplitNext ==
    \/ \E id \in {0, 1} : SplitDeliver(id)
    \/ OneShotStart
    \/ SplitStart
    \/ SplitResume
    \/ \E id \in {0, 1} : Turn(id) /\ ComputeFetch(id) /\ UNCHANGED driverVars
    \/ \E id \in {0, 1} : Turn(id) /\ ComputeExecute(id) /\ UNCHANGED driverVars
    \/ \E id \in {0, 1} : Turn(id) /\ ComputeReturn(id) /\ UNCHANGED driverVars

SpecSplit == SplitInit /\ [][SplitNext]_vars

----------------------------------------------------------------------------
(* SpecMemory: read and write applied to memories of every small shape.    *)

MemVals == {0, 7}
Memories == UNION {[1..n -> MemVals] : n \in 0..MaxMemLen}

MemoryInit ==
    /\ New({0}, Memories)
    /\ pending = [id \in {0} |-> <<>>]
    /\ nwrites = 0
    /\ given = Given(<<>>)
    /\ NoLog

MemoryRead(p) ==
    /\ pc[0] = "caller"
    /\ LET r == read(computers[0], p)
           self == IF r.err # "" THEN Panic(computers[0], r.err) ELSE computers[0]
       IN /\ computers' = [computers EXCEPT ![0] = self]
          /\ pc' = [pc EXCEPT ![0] = After(self, "caller")]
          /\ call' = [call EXCEPT ![0] =
                        Call("read", computers[0].state, <<p>>,
                             IF r.err # "" THEN <<>> ELSE <<r.val>>)]
    /\ UNCHANGED <<overflow_checks, driverVars>>

MemoryWrite(p, n) ==
    /\ Write(0, p, n)
    /\ UNCHANGED driverVars

MemoryNext ==
    \/ \E p \in -1..MaxAddr : MemoryRead(p)
    \/ \E p \in -1..MaxAddr, n \in MemVals : MemoryWrite(p, n)

SpecMemory == MemoryInit /\ [][MemoryNext]_vars

----------------------------------------------------------------------------
(* SpecInstr: one instruction of every kind, in every combination of       *)
(* parameter modes over a few parameter words, run once from new().  The   *)
(* instruction sits behind an AdjustRelativeBase that gives the relative   *)
(* base a non-zero value, and in front of a Halt.  The example programs of *)
(* the tests of aoc-2019-02 and aoc-2019-05 are run the same way.  A run   *)
(* that blocks without having been given input is resumed with a value.    *)

\* the relative base the instruction under study executes with
InstrBase == 2

\* the digits an instruction word's mode positions are filled with: the
\* three modes and one digit that is no mode
ModeDigits == {PARAM_TYPE_POSITION, PARAM_TYPE_IMMEDIATE, PARAM_TYPE_RELATIVE, 3}

\* the two low digits: the ten opcodes and three numbers that are none
InstrCodes ==
    {OP_ADD, OP_MUL, OP_STORE_INPUT, OP_WRITE_OUTPUT, OP_JUMP_IF_TRUE,
     OP_JUMP_IF_FALSE, OP_LESS_THAN, OP_EQUALS, OP_ADJUST_RELATIVE_BASE,
     OP_HALT, 0, 13, 98}

InstrWords ==
    {w \in {code + 100 * m0 + 1000 * m1 + 10000 * m2 :
              code \in InstrCodes, m0 \in ModeDigits, m1 \in ModeDigits,
              m2 \in ModeDigits} : w <= IntcodeMax}
    \cup {-1, -99, -103}

InstrPrefix == <<OP_ADJUST_RELATIVE_BASE + 100 * PARAM_TYPE_IMMEDIATE, InstrBase>>
InstrProgram(w, p1, p2, p3) == InstrPrefix \o <<w, p1, p2, p3, OP_HALT>>

\* address of the instruction under study
InstrAddr == Len(InstrPrefix)
HaltAddr == Len(InstrProgram(0, 0, 0, 0)) - 1

\* parameter words: one that is a negative address in Position and in
\* Relative mode, the address of the Halt, and the largest Intcode (an
\* address beyond memory, and an operand whose sums and products overflow)
OperandVals == {-InstrBase - 1, HaltAddr, IntcodeMax}
\* third parameter, the write target of the three-parameter instructions:
\* negative, the last cell, and the cell after the last
TargetVals == {-InstrBase - 1, HaltAddr, HaltAddr + 1}

InstrPrograms ==
    {InstrProgram(w, p1, p2, p3) :
        w \in InstrWords, p1 \in OperandVals, p2 \in OperandVals, p3 \in TargetVals}

Add1 == <<1, 0, 0, 0, 99>>
Mul3 == <<2, 3, 0, 3, 99>>
Eq8Pos == <<3, 9, 8, 9, 10, 9, 4, 9, 99, -1, 8>>
Eq8Imm == <<3, 3, 1108, -1, 8, 3, 4, 3, 99>>
Lt8Pos == <<3, 9, 7, 9, 10, 9, 4, 9, 99, -1, 8>>
Lt8Imm == <<3, 3, 1107, -1, 8, 3, 4, 3, 99>>
Ne0Pos == <<3, 12, 6, 12, 15, 1, 13, 14, 13, 4, 13, 99, -1, 0, 1, 9>>
Ne0Imm == <<3, 3, 1105, -1, 9, 1101, 0, 0, 12, 4, 12, 99, 1>>

Examples ==
    {Add1, Mul3, <<2, 4, 4, 5, 99, 0>>, <<1, 1, 1, 4, 99, 5, 6, 0, 99>>,
     Eq8Pos, Eq8Imm, Lt8Pos, Lt8Imm, Ne0Pos, Ne0Imm}

ExampleFeeds == {<<>>, <<-1>>, <<0>>, <<1>>, <<7>>, <<8>>, <<9>>}
InstrFeeds == {<<>>, <<8>>}
LateVals == {8}

\* the input a run is given: the examples get each of the tests' values, a
\* single StoreInput gets a value or none, any other instruction none
FeedsOf(prog) ==
    IF prog \in Examples THEN ExampleFeeds
    ELSE IF opcode(prog[InstrAddr + 1]) = OP_STORE_INPUT THEN InstrFeeds
    ELSE {<<>>}

InstrInit ==
    /\ New({0}, InstrPrograms \cup Examples)
    /\ \E feed \in FeedsOf(computers[0].memory) : pending = [id \in {0} |-> feed]
    /\ nwrites = 0
    /\ given = Given(pending[0])
    /\ NoLog

InstrDeliver ==
    /\ pending[0] # <<>>
    /\ computers[0].state = "Initial"
    /\ BufferInput(0, Head(pending[0]))
    /\ pending' = [pending EXCEPT ![0] = Tail(@)]
    /\ UNCHANGED <<nwrites, given, logVars>>

\* a caller write() before the run, at an address that is no address
InstrPatch ==
    /\ nwrites < MaxWrites
    /\ pending[0] = <<>>
    /\ computers[0].state = "Initial"
    /\ Write(0, -1, 0)
    /\ nwrites' = nwrites + 1
    /\ UNCHANGED <<pending, given, logVars>>

InstrStart ==
    /\ pending[0] = <<>>
    /\ Start(0)
    /\ UNCHANGED driverVars

\* the run is followed until it ends or comes back to its first word
InstrFetch ==
    /\ ~(computers[0].ip = 0 /\ computers[0].op # NoOp)
    /\ ComputeFetch(0)
    /\ UNCHANGED driverVars

\* a run given no input that has blocked is handed a value and resumed
InstrLate ==
    /\ given[0].inputs = <<>>
    /\ computers[0].state = "AwaitingInput"
    /\ computers[0].inputs = <<>>
    /\ \E input \in LateVals : BufferInput(0, input)
    /\ UNCHANGED driverVars

InstrResume ==
    /\ computers[0].state = "AwaitingInput"
    /\ computers[0].inputs # <<>>
    /\ Resume(0)
    /\ UNCHANGED driverVars

InstrNext ==
    \/ InstrDeliver
    \/ InstrPatch
    \/ InstrStart
    \/ InstrLate
    \/ InstrResume
    \/ InstrFetch
    \/ ComputeExecute(0) /\ UNCHANGED driverVars
    \/ ComputeReturn(0) /\ UNCHANGED driverVars

SpecInstr == InstrInit /\ [][InstrNext]_vars

----------------------------------------------------------------------------
(* SpecDecoder: OpDecoder applied once to an instruction word, any word up *)
(* to MaxWord or one of a few negative ones.                               *)

\* largest instruction word decoded; it has one digit more than the three
\* mode positions use
MaxWord == 100100

DecoderWords == (0..MaxWord) \cup {-1, -99, -103, -1105, -IntcodeMax}

DecoderInit ==
    /\ New({0}, {<<>>})
    /\ pending = [id \in {0} |-> <<>>]
    /\ nwrites = 0
    /\ given = Given(<<>>)
    /\ NoLog

\* OpDecoder(word): its opcode() and its param_type(0), (1), (2)
Decode(word) ==
    /\ call' = [call EXCEPT ![0] =
                  Call("OpDecoder", computers[0].state, <<word>>,
                       <<opcode(word), param_type(word, 0),
                         param_type(word, 1), param_type(word, 2)>>)]
    /\ UNCHANGED <<computers, pc, overflow_checks, driverVars>>

\* one word is decoded per run
DecoderNext ==
    /\ call[0].name = "new"
    /\ \E word \in DecoderWords : Decode(word)

SpecDecoder == DecoderInit /\ [][DecoderNext]_vars

----------------------------------------------------------------------------
(* SpecCaller: one machine and a caller that makes any call of the public  *)
(* interface, the queries included, whenever control is with it, and keeps *)
(* every output value it takes.                                            *)

\* two outputs, an input echoed, a third output
OutInOut == <<104, 1, 104, 2, 3, 0, 4, 0, 104, 3, 99>>
\* two inputs, output in the order read
InTwoOutTwo == <<3, 0, 3, 1, 4, 0, 4, 1, 99>>
\* the input decides a jump over the Halt to an output
JumpOnInput == <<3, 3, 1105, 0, 7, 99, 0, 104, 5, 99>>
\* the program of part1_ex1 of aoc-2019-09, which outputs itself
Quine == <<109, 1, 204, -1, 1001, 100, 1, 100, 1008, 100, 16, 101, 1006, 101, 0, 99>>

CallerPrograms == {<<99>>, <<4, -1, 99>>, OutInOut, InTwoOutTwo, JumpOnInput, Quine}
CallerVals == {0, 8}
CallerWrites == {<<-1, 0>>, <<0, 99>>}

CallerInit ==
    /\ New({0}, CallerPrograms)
    /\ pending = [id \in {0} |-> <<>>]
    /\ nwrites = 0
    /\ given = Given(<<>>)
    /\ NoLog

\* the caller keeps what a drain returned
Take(id) == drained' = [drained EXCEPT ![id] = @ \o call'[id].ret]

Keep(id) ==
    /\ Take(id)
    /\ UNCHANGED <<pending, nwrites, given, script, locals>>

CallerPatch ==
    /\ nwrites < MaxWrites
    /\ \E w \in CallerWrites : Write(0, w[1], w[2])
    /\ nwrites' = nwrites + 1
    /\ UNCHANGED <<pending, given, logVars>>

CallerNext ==
    \/ (\E input \in CallerVals : BufferInput(0, input)) /\ UNCHANGED driverVars
    \/ CallerPatch
    \/ ConsumeOutput(0) /\ Keep(0)
    \/ ConsumeOutputBuffer(0) /\ Keep(0)
    \/ IsHalted(0) /\ UNCHANGED driverVars
    \/ IsAwaitingInput(0) /\ UNCHANGED driverVars
    \/ ResultAddr0(0) /\ UNCHANGED driverVars
    \/ ResultLastOutput(0) /\ UNCHANGED driverVars
    \/ Start(0) /\ UNCHANGED driverVars
    \/ Resume(0) /\ UNCHANGED driverVars
    \/ StartOrResume(0) /\ UNCHANGED driverVars
    \/ FetchNext(0) /\ UNCHANGED driverVars
    \/ ComputeExecute(0) /\ UNCHANGED driverVars
    \/ ComputeReturn(0) /\ UNCHANGED driverVars

SpecCaller == CallerInit /\ [][CallerNext]_vars

----------------------------------------------------------------------------
(* SpecTwin: two machines made from clones of one program, as the machines *)
(* of do_part1 of aoc-2019-23 are.  The caller gives both the same         *)
(* operations with the same values, in any interleaving: the machine that  *)
(* is ahead is free in what it is given next, the one behind is given what *)
(* the other was given at that point.  script[id] is everything machine id *)
(* has done so far, calls and steps of its loop alike.                     *)

TwinIds == {0, 1}
TwinPrograms == {OutInOut, InTwoOutTwo}

Entry(name, args) == [name |-> name, args |-> args]
LoopSteps == {"fetch", "execute", "return"}

\* the number of calls in a script
Calls(s) == Cardinality({k \in DOMAIN s : s[k].name \notin LoopSteps})

\* machine id may do `entry` next: no machine is ahead of it and the caller
\* has calls left, or the machine ahead did `entry` at this point
Scheduled(id, entry) ==
    LET k == Len(script[id]) + 1
    IN IF \A j \in TwinIds : Len(script[j]) < k
       THEN entry.name \in LoopSteps \/ Calls(script[id]) < MaxOps
       ELSE \E j \in TwinIds : Len(script[j]) >= k /\ script[j][k] = entry

Logged(id, entry) ==
    /\ Scheduled(id, entry)
    /\ script' = [script EXCEPT ![id] = Append(@, entry)]
    /\ UNCHANGED <<pending, nwrites, given, locals>>

TwinInit ==
    /\ New(TwinIds, TwinPrograms)
    /\ pending = [id \in TwinIds |-> <<>>]
    /\ nwrites = 0
    /\ given = Given(<<>>)
    /\ drained = [id \in TwinIds |-> <<>>]
    /\ script = [id \in TwinIds |-> <<>>]
    /\ locals = <<>>

TwinBufferInput(id) ==
    \E input \in CallerVals :
        /\ BufferInput(id, input)
        /\ Logged(id, Entry("buffer_input", <<input>>))
        /\ UNCHANGED drained

TwinStart(id) ==
    Start(id) /\ Logged(id, Entry("start", <<>>)) /\ UNCHANGED drained

TwinResume(id) ==
    Resume(id) /\ Logged(id, Entry("resume", <<>>)) /\ UNCHANGED drained

TwinConsumeOutput(id) ==
    ConsumeOutput(id) /\ Logged(id, Entry("consume_output", <<>>)) /\ Take(id)

TwinConsumeOutputBuffer(id) ==
    ConsumeOutputBuffer(id) /\ Logged(id, Entry("consume_output_buffer", <<>>)) /\ Take(id)

TwinFetch(id) ==
    FetchNext(id) /\ Logged(id, Entry("fetch", <<>>)) /\ UNCHANGED drained

TwinExecute(id) ==
    ComputeExecute(id) /\ Logged(id, Entry("execute", <<>>)) /\ UNCHANGED drained

TwinReturn(id) ==
    ComputeReturn(id) /\ Logged(id, Entry("return", <<>>)) /\ UNCHANGED drained

TwinNext ==
    \E id \in TwinIds :
        \/ TwinBufferInput(id)
        \/ TwinStart(id)
        \/ TwinResume(id)
        \/ TwinConsumeOutput(id)
        \/ TwinConsumeOutputBuffer(id)
        \/ TwinFetch(id)
        \/ TwinExecute(id)
        \/ TwinReturn(id)

SpecTwin == TwinInit /\ [][TwinNext]_vars

----------------------------------------------------------------------------
(* SpecAscii: the text helpers of aoc-2019-17.  A String is its UTF-8      *)
(* bytes, which is what collect() builds and chars() reads; a char is its  *)
(* code point.                                                             *)

\* the largest u8
U8Max == 255

\* u8::try_from(n) for an Intcode or a char's code point
u8_try_from(n) ==
    IF 0 <= n /\ n <= U8Max THEN Ok(n)
    ELSE Err("called Result::unwrap() on an Err value: TryFromIntError")

\* String::push(char): the UTF-8 encoding of one code point (up to three
\* bytes, which covers every code point the model uses)
encode_utf8(c) ==
    IF c < 128 THEN <<c>>
    ELSE IF c < 2048 THEN <<192 + (c \div 64), 128 + (c % 64)>>
    ELSE <<224 + (c \div 4096), 128 + ((c \div 64) % 64), 128 + (c % 64)>>

\* collect::<String>() of an iterator of chars
RECURSIVE collect(_)
collect(cs) ==
    IF cs = <<>> THEN <<>> ELSE encode_utf8(Head(cs)) \o collect(Tail(cs))

\* str::chars() collected: the code points of a String, in order
RECURSIVE chars(_)
chars(str) ==
    IF str = <<>> THEN <<>>
    ELSE LET b == Head(str)
         IN IF b < 128 THEN <<b>> \o chars(Tail(str))
            ELSE IF b < 224
                 THEN <<(b - 192) * 64 + (str[2] - 128)>> \o chars(SubSeq(str, 3, Len(str)))
                 ELSE <<(b - 224) * 4096 + (str[2] - 128) * 64 + (str[3] - 128)>>
                      \o chars(SubSeq(str, 4, Len(str)))

\* map(|x| u8::try_from(x).unwrap()) over a sequence: the first failure
\* panics
RECURSIVE map_u8(_)
map_u8(xs) ==
    IF xs = <<>> THEN Ok(<<>>)
    ELSE LET h == u8_try_from(Head(xs))
             t == map_u8(Tail(xs))
         IN IF h.err # "" THEN Err(h.err)
            ELSE IF t.err # "" THEN Err(t.err)
            ELSE Ok(<<h.val>> \o t.val)

\* a character is put in place of a word that is no u8
RECURSIVE intcodes_to_ascii_lossy(_)
intcodes_to_ascii_lossy(intcodes) ==
    IF intcodes = <<>> THEN Ok(<<>>)
    ELSE LET h == u8_try_from(Head(intcodes))
         IN Ok(encode_utf8(IF h.err # "" THEN 63 ELSE h.val)
               \o intcodes_to_ascii_lossy(Tail(intcodes)).val)

\* char::from(u8) is the code point of the same number
intcodes_to_ascii(intcodes) ==
    LET bytes == map_u8(intcodes)
    IN IF bytes.err # "" THEN Err(bytes.err) ELSE Ok(collect(bytes.val))

\* Intcode::from(u8) is the same number
ascii_to_intcodes(ascii) == map_u8(chars(ascii))

\* longest text and longest word sequence converted
AsciiLen == 2

\* words: character codes, the ends of the u8 range and its neighbours
AsciiWords == {-1, 0, 10, 65, 127, 128, 255, 256, IntcodeMax}
\* code points: ASCII, the rest of the u8 range, and two beyond it
AsciiChars == {0, 10, 65, 127, 128, 255, 256, 8364}

WordSeqs == UNION {[1..n -> AsciiWords] : n \in 0..AsciiLen}
Strings == {collect(cs) : cs \in UNION {[1..n -> AsciiChars] : n \in 0..AsciiLen}}

AsciiInit ==
    /\ New({0}, {<<>>})
    /\ pending = [id \in {0} |-> <<>>]
    /\ nwrites = 0
    /\ given = Given(<<>>)
    /\ NoLog

\* a conversion is called on `arg`; script keeps the first argument
Convert(name, arg, ret) ==
    /\ call' = [call EXCEPT ![0] = Call(name, call[0].name, <<arg>>, <<ret>>)]
    /\ script' = IF script = <<>> THEN <<arg>> ELSE script
    /\ UNCHANGED <<computers, pc, overflow_checks, pending, nwrites, given, drained, locals>>

IntcodesToAscii(intcodes) == Convert("intcodes_to_ascii", intcodes, intcodes_to_ascii(intcodes))

AsciiToIntcodes(ascii) == Convert("ascii_to_intcodes", ascii, ascii_to_intcodes(ascii))

\* what the last conversion returned, when it returned
Converted == call[0].ret[1].val

\* a conversion of a drawn argument, then the other conversion of what the
\* first returned
AsciiNext ==
    \/ /\ call[0].name = "new"
       /\ \E intcodes \in WordSeqs : IntcodesToAscii(intcodes)
    \/ /\ call[0].name = "new"
       /\ \E ascii \in Strings : AsciiToIntcodes(ascii)
    \/ /\ call[0].name = "intcodes_to_ascii" /\ call[0].from = "new"
       /\ call[0].ret[1].err = ""
       /\ AsciiToIntcodes(Converted)
    \/ /\ call[0].name = "ascii_to_intcodes" /\ call[0].from = "new"
       /\ call[0].ret[1].err = ""
       /\ IntcodesToAscii(Converted)

SpecAscii == AsciiInit /\ [][AsciiNext]_vars

----------------------------------------------------------------------------
(* SpecNet: the network drivers do_part1 and do_part2 of                   *)
(* aoc-2019-23/src/lib.rs.  NCOMPUTERS machines run clones of one program; *)
(* the driver owns one inbound buffer per machine and, in do_part2, the    *)
(* NAT.  `locals` holds the driver's local variables and where it is in    *)
(* its body; `script` is the history of what it took from the machines and *)
(* what it gave them.                                                      *)

\* machines of the network (50 in the source)
NCOMPUTERS == 2
\* rounds of the driver's outer loop
MaxRounds == 5

EMPTY_BUFFER == -1
NatAddress == 255

NetIds == 0..(NCOMPUTERS - 1)

None == <<>>
Some(v) == <<v>>

\* a network interface program: it reads its address a and makes row a of
\* the table behind the code its own, <<n, d1, x1, y1, d2, x2, y2, rd, dy>>;
\* it sends its first n (at most two) packets (d, x, y), and from then on
\* answers every packet (X, Y) it is given with (rd, X, Y + dy), or with
\* nothing when rd is -1.  An input of -1 where X is expected is no packet.
NicCode ==
    <<3, 65,                    \*  0: a <- input
      1002, 65, 9, 65,          \*  2: a <- a * 9
      1001, 65, 69, 65,         \*  6: a <- a + 69
      9, 65,                    \* 10: relative base <- row a
      1206, 0, 34,              \* 12: n = 0: go to 34
      204, 1, 204, 2, 204, 3,   \* 15: send (d1, x1, y1)
      1208, 0, 1, 66,           \* 21: c <- (n = 1)
      1005, 66, 34,             \* 25: c: go to 34
      204, 4, 204, 5, 204, 6,   \* 28: send (d2, x2, y2)
      3, 67,                    \* 34: X <- input
      1008, 67, -1, 66,         \* 36: c <- (X = -1)
      1005, 66, 34,             \* 40: c: go to 34
      3, 68,                    \* 43: Y <- input
      1208, 7, -1, 66,          \* 45: c <- (rd = -1)
      1005, 66, 34,             \* 49: c: go to 34
      201, 8, 68, 68,           \* 52: Y <- dy + Y
      204, 7, 4, 67, 4, 68,     \* 56: send (rd, X, Y)
      1105, 1, 34,              \* 62: go to 34
      0, 0, 0, 0>>              \* 65: a, c, X, Y

\* the packets a machine opens with: their destinations
Openings == {<<>>, <<0>>, <<1>>, <<NatAddress, 0>>, <<NatAddress, NatAddress>>, <<1, 1>>}
\* its answer to a packet: <<rd, dy>>
Replies == {<<-1, 0>>, <<0, 0>>, <<NatAddress, 0>>, <<NatAddress, 1>>}

Row(opening, reply) ==
    <<Len(opening),
      IF Len(opening) >= 1 THEN opening[1] ELSE 0, 5, 6,
      IF Len(opening) >= 2 THEN opening[2] ELSE 0, 7, 8,
      reply[1], reply[2]>>

Rows == {Row(o, r) : o \in Openings, r \in Replies}
Quiet == Row(<<>>, <<-1, 0>>)

\* machines 0 and 1 have any row, the others are quiet
Tables == {t \in [NetIds -> Rows] : \A a \in NetIds : a >= 2 => t[a] = Quiet}

RECURSIVE Flatten(_, _)
Flatten(table, a) ==
    IF a \notin DOMAIN table THEN <<>> ELSE table[a] \o Flatten(table, a + 1)

Nic(table) == NicCode \o Flatten(table, 0)

\* a machine that halts once it has its address, one that sends to an
\* address nobody has, and one that sends a third of a packet
NetPrograms ==
    {Nic(t) : t \in Tables}
    \cup {<<3, 0, 99>>,
          <<3, 0, 104, 7, 104, 1, 104, 2, 3, 0, 99>>,
          <<3, 0, 104, 1, 3, 0, 99>>}

\* the newest packet goes to the head of the buffer
push_front(buffer, packet) == <<packet>> \o buffer

\* VecDeque::push_back and pop_front of an inbound buffer
push_back(buffer, packet) == Append(buffer, packet)
pop_front(buffer) == [val |-> Head(buffer), rest |-> Tail(buffer)]

\* slice::chunks(3): consecutive triples, the last one shorter when the
\* length is not a multiple of 3
RECURSIVE chunks(_, _)
chunks(output, n) ==
    IF Len(output) = 0 THEN <<>>
    ELSE IF Len(output) <= n THEN <<output>>
    ELSE <<SubSeq(output, 1, n)>> \o chunks(SubSeq(output, n + 1, Len(output)), n)

Returned_(l, value) == [l EXCEPT !.at = "returned", !.result = Some(value)]
DriverPanic(l) == [l EXCEPT !.at = "panicked"]

\* buffers[dest as usize].push_back(packet): the index is checked
Route(l, dest, packet) ==
    IF dest \notin DOMAIN l.buffers THEN DriverPanic(l)
    ELSE [l EXCEPT !.buffers[dest] = push_back(@, packet)]

\* the body of `for output in output.chunks(3)` of do_part1
Part1Chunk(l, output) ==
    IF Len(output) # 3 THEN DriverPanic(l)
    ELSE LET dest == output[1]
         IN IF dest = NatAddress THEN Returned_(l, output[3])
            ELSE Route(l, dest, <<output[2], output[3]>>)

\* the NAT keeps the first packet it is sent until it has forwarded it
Part2ChunkKeepsFirst(l, output) ==
    IF Len(output) # 3 THEN DriverPanic(l)
    ELSE LET dest == output[1]
             packet == <<output[2], output[3]>>
             s == [l EXCEPT !.sent = TRUE]
         IN IF dest = NatAddress
            THEN IF l.nat = None THEN [s EXCEPT !.nat = Some(packet)] ELSE s
            ELSE Route(s, dest, packet)

\* the body of `for output in output.chunks(3)` of do_part2
Part2Chunk(l, output) ==
    IF Len(output) # 3 THEN DriverPanic(l)
    ELSE LET dest == output[1]
             packet == <<output[2], output[3]>>
             s == [l EXCEPT !.sent = TRUE]
         IN IF dest = NatAddress THEN [s EXCEPT !.nat = Some(packet)]
            ELSE Route(s, dest, packet)

\* the loop over the chunks, left at a return or a panic
RECURSIVE ForChunks(_, _)
ForChunks(l, cs) ==
    IF cs = <<>> \/ l.at \in {"returned", "panicked"} THEN l
    ELSE ForChunks(IF l.fn = "do_part1" THEN Part1Chunk(l, Head(cs))
                   ELSE Part2Chunk(l, Head(cs)),
                   Tail(cs))

\* the NAT of do_part2, after the for loop over the machines
NatStep(l) ==
    IF ~l.sent /\ \A b \in DOMAIN l.buffers : l.buffers[b] = <<>>
    THEN IF l.nat # None
         THEN LET x == l.nat[1][1]
                  y == l.nat[1][2]
                  cleared == [l EXCEPT !.nat = None]
              IN IF l.nat_last_y # None /\ y = l.nat_last_y[1]
                 THEN Returned_(cleared, y)
                 ELSE [cleared EXCEPT !.nat_last_y = Some(y),
                                      !.buffers[0] = push_back(@, <<x, y>>)]
         ELSE l
    ELSE l

\* history entries: the driver took `chunk` from machine src; it buffered
\* vals into machine id in round r; the NAT queued packet for machine 0
Out(src, chunk) == [ev |-> "out", id |-> src, round |-> 0, vals |-> chunk]
In(id, r, vals) == [ev |-> "in", id |-> id, round |-> r, vals |-> vals]
NatOut(packet) == [ev |-> "nat", id |-> 0, round |-> 0, vals |-> packet]

RECURSIVE Outs(_, _)
Outs(src, cs) == IF cs = <<>> THEN <<>> ELSE <<Out(src, Head(cs))>> \o Outs(src, Tail(cs))

NetFrame == UNCHANGED <<pending, nwrites, given>>

NetInit ==
    /\ New(NetIds, NetPrograms)
    /\ pending = [id \in NetIds |-> <<>>]
    /\ nwrites = 0
    /\ given = Given(<<>>)
    /\ drained = [id \in NetIds |-> <<>>]
    /\ script = <<>>
    /\ \E fn \in {"do_part1", "do_part2"} :
          locals = [fn |-> fn, at |-> "buffer_address", i |-> 0, round |-> 0,
                    buffers |-> [id \in NetIds |-> <<>>],
                    nat |-> None, nat_last_y |-> None, sent |-> FALSE,
                    result |-> None]

\* computer.buffer_input(i as Intcode) of the set-up loop
NetBufferAddress ==
    /\ locals.at = "buffer_address"
    /\ LET i == locals.i
       IN /\ pc[i] = "caller"
          /\ computers' = [computers EXCEPT ![i] = buffer_input(@, i)]
          /\ call' = [call EXCEPT ![i] = Call("buffer_input", computers[i].state, <<i>>, <<>>)]
          /\ script' = Append(script, In(i, 0, <<i>>))
    /\ locals' = [locals EXCEPT !.at = "start"]
    /\ UNCHANGED <<pc, overflow_checks, drained>>
    /\ NetFrame

\* computer.start() of the set-up loop
NetStart ==
    /\ locals.at = "start"
    /\ Start(locals.i)
    /\ locals' = [locals EXCEPT !.at = IF pc'[locals.i] = "aborted" THEN "panicked" ELSE "running"]
    /\ UNCHANGED <<drained, script>>
    /\ NetFrame

\* machine i runs: one turn of the loop of compute
NetStep ==
    /\ locals.at = "running"
    /\ FetchNext(locals.i) \/ ComputeExecute(locals.i)
    /\ locals' = [locals EXCEPT !.at = IF pc'[locals.i] = "aborted" THEN "panicked" ELSE "running"]
    /\ UNCHANGED <<drained, script>>
    /\ NetFrame

\* start or resume returns: the next machine is set up or has its turn;
\* after the last machine's start the first round begins, after its turn
\* the for loop over the machines is over
NetReturn ==
    /\ locals.at = "running"
    /\ ComputeReturn(locals.i)
    /\ locals' =
          IF locals.i + 1 < NCOMPUTERS
          THEN [locals EXCEPT !.i = @ + 1,
                              !.at = IF locals.round = 0 THEN "buffer_address" ELSE "drain"]
          ELSE IF locals.round = 0
               THEN [locals EXCEPT !.i = 0, !.round = 1, !.at = "drain", !.sent = FALSE]
               ELSE [locals EXCEPT !.at = "idle"]
    /\ UNCHANGED <<drained, script>>
    /\ NetFrame

\* machine i's turn begins: its output is taken and routed in triples (the
\* model follows the driver for MaxRounds rounds)
NetDrain ==
    /\ locals.at = "drain"
    /\ locals.round <= MaxRounds
    /\ ConsumeOutputBuffer(locals.i)
    /\ Take(locals.i)
    /\ LET cs == chunks(computers[locals.i].outputs, 3)
       IN /\ locals' = ForChunks([locals EXCEPT !.at = "deliver"], cs)
          /\ script' = script \o Outs(locals.i, cs)
    /\ NetFrame

\* a machine whose buffer is empty is given nothing
NetDeliverNothing ==
    /\ locals.at = "deliver"
    /\ LET i == locals.i
           buffer == locals.buffers[i]
       IN /\ pc[i] = "caller"
          /\ IF Len(buffer) > 0
             THEN LET packet == pop_front(buffer).val
                  IN /\ computers' = [computers EXCEPT ![i] =
                                        buffer_input(buffer_input(@, packet[1]), packet[2])]
                     /\ call' = [call EXCEPT ![i] =
                                   Call("buffer_input", computers[i].state, <<packet[2]>>, <<>>)]
                     /\ locals' = [locals EXCEPT !.buffers[i] = pop_front(buffer).rest,
                                                 !.at = "resume"]
                     /\ script' = Append(script, In(i, locals.round, packet))
             ELSE /\ locals' = [locals EXCEPT !.at = "resume"]
                  /\ UNCHANGED <<computers, call, script>>
    /\ UNCHANGED <<pc, overflow_checks, drained>>
    /\ NetFrame

\* machine i is given the oldest packet of its buffer, or EMPTY_BUFFER
NetDeliver ==
    /\ locals.at = "deliver"
    /\ LET i == locals.i
           buffer == locals.buffers[i]
       IN /\ pc[i] = "caller"
          /\ IF Len(buffer) > 0
             THEN LET packet == pop_front(buffer).val
                  IN /\ computers' = [computers EXCEPT ![i] =
                                        buffer_input(buffer_input(@, packet[1]), packet[2])]
                     /\ call' = [call EXCEPT ![i] =
                                   Call("buffer_input", computers[i].state, <<packet[2]>>, <<>>)]
                     /\ locals' = [locals EXCEPT !.buffers[i] = pop_front(buffer).rest,
                                                 !.at = "resume"]
                     /\ script' = Append(script, In(i, locals.round, packet))
             ELSE /\ computers' = [computers EXCEPT ![i] = buffer_input(@, EMPTY_BUFFER)]
                  /\ call' = [call EXCEPT ![i] =
                                Call("buffer_input", computers[i].state, <<EMPTY_BUFFER>>, <<>>)]
                  /\ locals' = [locals EXCEPT !.at = "resume"]
                  /\ script' = Append(script, In(i, locals.round, <<EMPTY_BUFFER>>))
    /\ UNCHANGED <<pc, overflow_checks, drained>>
    /\ NetFrame

\* computer.resume()
NetResume ==
    /\ locals.at = "resume"
    /\ Resume(locals.i)
    /\ locals' = [locals EXCEPT !.at = IF pc'[locals.i] = "aborted" THEN "panicked" ELSE "running"]
    /\ UNCHANGED <<drained, script>>
    /\ NetFrame

\* the end of a round: in do_part2 the NAT acts; then the next round begins
NetIdle ==
    /\ locals.at = "idle"
    /\ LET l == IF locals.fn = "do_part2" THEN NatStep(locals) ELSE locals
       IN /\ locals' = IF l.at = "returned" THEN l
                       ELSE [l EXCEPT !.i = 0, !.round = @ + 1, !.at = "drain", !.sent = FALSE]
          /\ script' = IF l.buffers # locals.buffers
                       THEN Append(script, NatOut(locals.nat[1]))
                       ELSE script
    /\ UNCHANGED <<machineVars, overflow_checks, drained>>
    /\ NetFrame

NetNext ==
    \/ NetBufferAddress
    \/ NetStart
    \/ NetStep
    \/ NetReturn
    \/ NetDrain
    \/ NetDeliver
    \/ NetResume
    \/ NetIdle

SpecNet == NetInit /\ [][NetNext]_vars

----------------------------------------------------------------------------
(* The machine of aoc-2019-05/src/lib.rs: words are i32, the memory has a  *)
(* fixed size, parameters are Position or Immediate, and all inputs are    *)
(* given to new().  SpecDay05 runs it on a program and an input list, and  *)
(* then the final machine on the same program with the same inputs         *)
(* buffered before start.                                                  *)

\* i32, at a width below the model's Intcode as i32 is below i64
I32Max == 16383
I32Min == -I32Max - 1
I32Modulus == 2 * (I32Max + 1)

InI32(n) == I32Min <= n /\ n <= I32Max

\* +, * and += on i32
I32Checked(n) ==
    IF InI32(n) THEN Ok(n)
    ELSE IF overflow_checks THEN Err("arithmetic overflow")
    ELSE Ok(((n - I32Min) % I32Modulus) + I32Min)

day05_opcode(word) == Rem(word, Pow(OP_PARAMETER_BASE, OP_PARAMETER_BASE_POS - 1))

day05_param_type(word, argno) ==
    Quot(Rem(word, Pow(OP_PARAMETER_BASE, argno + OP_PARAMETER_BASE_POS)),
         Pow(OP_PARAMETER_BASE, argno + OP_PARAMETER_BASE_POS - 1))

day05_new(memory, inputs) ==
    [memory |-> memory,
     inputs |-> inputs,
     ip |-> 0,
     halted |-> FALSE,
     outputs |-> <<>>,
     panicked |-> ""]

day05_read(self, p) ==
    IF ~(p >= 0) THEN Err("assertion failed: p >= 0")
    ELSE IF p < Len(self.memory) THEN Ok(self.memory[p + 1])
    ELSE Err("called Option::unwrap() on a None value")

day05_write(self, p, n) ==
    IF ~(p >= 0) THEN Panic(self, "assertion failed: p >= 0")
    ELSE IF p < Len(self.memory) THEN [self EXCEPT !.memory[p + 1] = n]
    ELSE Panic(self, "called Option::unwrap() on a None value")

day05_deref(self, param) ==
    CASE param.mode = "Position" -> day05_read(self, param.value)
      [] param.mode = "Immediate" -> Ok(param.value)

\* the closures handed to binary_op by execute
day05_F(kind, a, b) ==
    CASE kind = "Add" -> I32Checked(a + b)
      [] kind = "Mul" -> I32Checked(a * b)
      [] kind = "LessThan" -> Ok(IF a < b THEN 1 ELSE 0)
      [] kind = "Equals" -> Ok(IF a = b THEN 1 ELSE 0)

day05_binary_op(self, pa, pb, pc_, kind) ==
    LET a == day05_deref(self, pa)
        b == day05_deref(self, pb)
        c == day05_F(kind, a.val, b.val)
    IN IF a.err # "" THEN Panic(self, a.err)
       ELSE IF b.err # "" THEN Panic(self, b.err)
       ELSE IF c.err # "" THEN Panic(self, c.err)
       ELSE IF pc_.mode = "Position" THEN day05_write(self, pc_.value, c.val)
       ELSE Panic(self, "Binary op arg c must be Position type")

day05_jump_if_false(self, pa, pb) ==
    LET cond == day05_deref(self, pa)
        addr == day05_deref(self, pb)
    IN IF cond.err # "" THEN Panic(self, cond.err)
       ELSE IF cond.val = 0
            THEN IF addr.err # "" THEN Panic(self, addr.err)
                 ELSE [self EXCEPT !.ip = addr.val]
            ELSE self

day05_jump_if_true(self, pa, pb) ==
    LET cond == day05_deref(self, pa)
        addr == day05_deref(self, pb)
    IN IF cond.err # "" THEN Panic(self, cond.err)
       ELSE IF cond.val # 0
            THEN IF addr.err # "" THEN Panic(self, addr.err)
                 ELSE [self EXCEPT !.ip = addr.val]
            ELSE self

day05_read_word_and_advance(self) ==
    LET n == day05_read(self, self.ip)
        next == I32Checked(self.ip + 1)
    IN IF n.err # "" THEN [m |-> Panic(self, n.err), val |-> 0]
       ELSE IF next.err # "" THEN [m |-> Panic(self, next.err), val |-> 0]
       ELSE [m |-> [self EXCEPT !.ip = next.val], val |-> n.val]

day05_read_op_and_advance(self) == day05_read_word_and_advance(self)

day05_read_param_and_advance(self, ptype) ==
    LET r == day05_read_word_and_advance(self)
    IN IF Panicked(r.m) THEN r
       ELSE CASE ptype = PARAM_TYPE_POSITION -> [m |-> r.m, val |-> Position(r.val)]
              [] ptype = PARAM_TYPE_IMMEDIATE -> [m |-> r.m, val |-> Immediate(r.val)]
              [] OTHER -> [m |-> Panic(r.m, "Unknown parameter type"), val |-> 0]

day05_read_input(self) ==
    IF self.inputs = <<>> THEN [m |-> Panic(self, "Ran out of inputs"), val |-> 0]
    ELSE [m |-> [self EXCEPT !.inputs = Tail(self.inputs)], val |-> Head(self.inputs)]

\* the macro op_read_params!(kind, count)
RECURSIVE day05_op_read_params_inner(_, _, _, _, _)
day05_op_read_params_inner(self, word, argno, count, acc) ==
    IF argno = count THEN [m |-> self, val |-> acc]
    ELSE LET r == day05_read_param_and_advance(self, day05_param_type(word, argno))
         IN IF Panicked(r.m) THEN [m |-> r.m, val |-> acc]
            ELSE day05_op_read_params_inner(r.m, word, argno + 1, count, Append(acc, r.val))

day05_op_read_params(self, word, kind, count) ==
    LET r == day05_op_read_params_inner(self, word, 0, count, <<>>)
    IN [m |-> r.m, val |-> SomeOp(kind, r.val)]

\* returns the Op read; m is self afterwards
day05_read_next_instruction(self) ==
    LET r == day05_read_op_and_advance(self)
        code == day05_opcode(r.val)
    IN IF Panicked(r.m) THEN [m |-> r.m, val |-> NoOp]
       ELSE CASE code = OP_ADD -> day05_op_read_params(r.m, r.val, "Add", 3)
              [] code = OP_MUL -> day05_op_read_params(r.m, r.val, "Mul", 3)
              [] code = OP_STORE_INPUT -> day05_op_read_params(r.m, r.val, "StoreInput", 1)
              [] code = OP_WRITE_OUTPUT -> day05_op_read_params(r.m, r.val, "WriteOutput", 1)
              [] code = OP_JUMP_IF_TRUE -> day05_op_read_params(r.m, r.val, "JumpIfTrue", 2)
              [] code = OP_JUMP_IF_FALSE -> day05_op_read_params(r.m, r.val, "JumpIfFalse", 2)
              [] code = OP_LESS_THAN -> day05_op_read_params(r.m, r.val, "LessThan", 3)
              [] code = OP_EQUALS -> day05_op_read_params(r.m, r.val, "Equals", 3)
              [] code = OP_HALT -> [m |-> r.m, val |-> SomeOp("Halt", <<>>)]
              [] OTHER -> [m |-> Panic(r.m, "Unknown opcode"), val |-> NoOp]

day05_store_input(self, pa) ==
    LET r == day05_read_input(self)
    IN IF Panicked(r.m) THEN r.m
       ELSE IF pa.mode = "Position" THEN day05_write(r.m, pa.value, r.val)
       ELSE Panic(r.m, "StoreInput arg0 must be Position type")

day05_write_output(self, pa) ==
    LET value == day05_deref(self, pa)
    IN IF value.err # "" THEN Panic(self, value.err)
       ELSE [self EXCEPT !.outputs = Append(self.outputs, value.val)]

day05_execute(self, op) ==
    LET p == op.params
        kind == op.kind
    IN CASE kind \in {"Add", "Mul", "LessThan", "Equals"} ->
               day05_binary_op(self, p[1], p[2], p[3], kind)
         [] kind = "StoreInput" -> day05_store_input(self, p[1])
         [] kind = "WriteOutput" -> day05_write_output(self, p[1])
         [] kind = "JumpIfTrue" -> day05_jump_if_true(self, p[1], p[2])
         [] kind = "JumpIfFalse" -> day05_jump_if_false(self, p[1], p[2])
         [] kind = "Halt" -> [self EXCEPT !.halted = TRUE]

\* compute() up to its loop
day05_compute(self) ==
    IF ~(~self.halted) THEN Panic(self, "assertion failed: !self.halted")
    ELSE IF ~(0 = self.ip) THEN Panic(self, "assertion failed: 0 == ip")
    ELSE self

\* the body of the loop of compute()
day05_execute_read(r) == IF Panicked(r.m) THEN r.m ELSE day05_execute(r.m, r.val)

day05_compute_body(self) == day05_execute_read(day05_read_next_instruction(self))

\* the tests of aoc-2019-05 and programs that overflow an i32, write or
\* read beyond the memory, use what the day-05 machine does not have, run
\* out of inputs, or never halt
Day05Programs ==
    Catalogue
    \cup ShortPrograms
    \cup {<<3, 3, 1105, -1, 9, 1101, 0, 0, 12, 4, 12, 99, 1>>,
          <<3, 12, 6, 12, 15, 1, 13, 14, 13, 4, 13, 99, -1, 0, 1, 9>>,
          <<3, 3, 1108, -1, 8, 3, 4, 3, 99>>,
          <<3, 9, 8, 9, 10, 9, 4, 9, 99, -1, 8>>,
          <<3, 3, 1107, -1, 8, 3, 4, 3, 99>>,
          <<3, 9, 7, 9, 10, 9, 4, 9, 99, -1, 8>>,
          <<1101, I32Max, 1, 0, 4, 0, 99>>,
          <<1102, I32Max, 2, 0, 4, 0, 99>>,
          <<3, 0, 1001, 0, I32Max, 0, 4, 0, 99>>,
          <<3, 0, 3, 1, 2, 0, 1, 0, 4, 0, 99>>,
          <<1101, 1, 1, 9, 4, 9, 99>>,
          <<4, 9, 99>>,
          <<109, 1, 99>>,
          <<11101, 1, 1, 0, 99>>,
          <<1101, 1, 1, 0>>}

Day05Vals == {-1, 0, 8, I32Max}
Day05Inputs == UNION {[1..n -> Day05Vals] : n \in 0..MaxQueue}

Day05 == 0
Final == 1

Day05Init ==
    /\ \E prog \in Day05Programs : \E inputs \in Day05Inputs :
          /\ \A k \in DOMAIN prog : InI32(prog[k])
          /\ computers = (Day05 :> day05_new(prog, inputs)) @@ (Final :> new(prog))
          /\ call = (Day05 :> Call("new", "", <<prog, inputs>>, <<>>))
                    @@ (Final :> Call("new", "", <<prog>>, <<>>))
          /\ pending = (Day05 :> <<>>) @@ (Final :> inputs)
          /\ given = [id \in {Day05, Final} |-> [program |-> prog, inputs |-> inputs]]
    /\ pc = [id \in {Day05, Final} |-> "caller"]
    /\ overflow_checks \in BOOLEAN
    /\ nwrites = 0
    /\ NoLog

Day05Frame == UNCHANGED <<overflow_checks, nwrites, given, logVars>>

\* the day-05 machine after a step of compute(), which goes on unless it
\* panicked
Day05Becomes(self) ==
    /\ computers' = [computers EXCEPT ![Day05] = self]
    /\ pc' = [pc EXCEPT ![Day05] = After(self, "compute")]

\* computer.compute() is called
Day05Compute ==
    /\ pc[Day05] = "caller"
    /\ call[Day05].name = "new"
    /\ LET self == day05_compute(computers[Day05])
       IN /\ computers' = [computers EXCEPT ![Day05] = self]
          /\ pc' = [pc EXCEPT ![Day05] = After(self, "compute")]
    /\ call' = [call EXCEPT ![Day05] = Call("compute", "", <<>>, <<>>)]
    /\ UNCHANGED pending
    /\ Day05Frame

\* one turn of its loop
Day05Loop ==
    /\ pc[Day05] = "compute"
    /\ ~computers[Day05].halted
    /\ Day05Becomes(day05_compute_body(computers[Day05]))
    /\ UNCHANGED <<call, pending>>
    /\ Day05Frame

Day05Return ==
    /\ pc[Day05] = "compute"
    /\ computers[Day05].halted
    /\ pc' = [pc EXCEPT ![Day05] = "caller"]
    /\ UNCHANGED <<computers, call, pending>>
    /\ Day05Frame

\* the day-05 run is over: it returned or it panicked
Day05Over ==
    \/ pc[Day05] = "aborted"
    \/ pc[Day05] = "caller" /\ call[Day05].name = "compute"

\* the final machine is given the same inputs, oldest first
FinalBufferInput ==
    /\ Day05Over
    /\ pending[Final] # <<>>
    /\ BufferInput(Final, Head(pending[Final]))
    /\ pending' = [pending EXCEPT ![Final] = Tail(@)]
    /\ Day05Frame

FinalStart ==
    /\ Day05Over
    /\ pending[Final] = <<>>
    /\ call[Final].name # "start"
    /\ Start(Final)
    /\ UNCHANGED pending
    /\ Day05Frame

FinalStep ==
    /\ FetchNext(Final) \/ ComputeExecute(Final)
    /\ UNCHANGED pending
    /\ Day05Frame

FinalReturn ==
    /\ ComputeReturn(Final)
    /\ UNCHANGED pending
    /\ Day05Frame

Day05Next ==
    \/ Day05Compute
    \/ Day05Loop
    \/ Day05Return
    \/ FinalBufferInput
    \/ FinalStart
    \/ FinalStep
    \/ FinalReturn

SpecDay05 == Day05Init /\ [][Day05Next]_vars

----------------------------------------------------------------------------
(* The machine of aoc-2019-07/src/lib.rs and max_thruster.  Words are i32, *)
(* the memory has a fixed size and parameters are Position or Immediate;   *)
(* the machine suspends on an empty input queue as the final one does, and *)
(* its outputs are a Vec the caller pops.  SpecAmp runs max_thruster: for  *)
(* every permutation of the phases a fresh chain of amplifiers, each run   *)
(* segment by segment with the previous segment's output as its input.     *)

day07_opcode(word) == Rem(word, Pow(OP_PARAMETER_BASE, OP_PARAMETER_BASE_POS - 1))

day07_param_type(word, argno) ==
    Quot(Rem(word, Pow(OP_PARAMETER_BASE, argno + OP_PARAMETER_BASE_POS)),
         Pow(OP_PARAMETER_BASE, argno + OP_PARAMETER_BASE_POS - 1))

day07_new(memory) ==
    [memory |-> memory,
     inputs |-> <<>>,
     ip |-> 0,
     state |-> "Initial",
     outputs |-> <<>>,
     op |-> NoOp,
     panicked |-> ""]

day07_read(self, p) ==
    IF ~(p >= 0) THEN Err("assertion failed: p >= 0")
    ELSE IF p < Len(self.memory) THEN Ok(self.memory[p + 1])
    ELSE Err("called Option::unwrap() on a None value")

day07_write(self, p, n) ==
    IF ~(p >= 0) THEN Panic(self, "assertion failed: p >= 0")
    ELSE IF p < Len(self.memory) THEN [self EXCEPT !.memory[p + 1] = n]
    ELSE Panic(self, "called Option::unwrap() on a None value")

day07_deref(self, param) ==
    CASE param.mode = "Position" -> day07_read(self, param.value)
      [] param.mode = "Immediate" -> Ok(param.value)

\* the closures handed to binary_op by execute
day07_F(kind, a, b) ==
    CASE kind = "Add" -> I32Checked(a + b)
      [] kind = "Mul" -> I32Checked(a * b)
      [] kind = "LessThan" -> Ok(IF a < b THEN 1 ELSE 0)
      [] kind = "Equals" -> Ok(IF a = b THEN 1 ELSE 0)

day07_binary_op(self, pa, pb, pc_, kind) ==
    LET a == day07_deref(self, pa)
        b == day07_deref(self, pb)
        c == day07_F(kind, a.val, b.val)
    IN IF a.err # "" THEN Panic(self, a.err)
       ELSE IF b.err # "" THEN Panic(self, b.err)
       ELSE IF c.err # "" THEN Panic(self, c.err)
       ELSE IF pc_.mode = "Position" THEN day07_write(self, pc_.value, c.val)
       ELSE Panic(self, "Binary op arg c must be Position type")

day07_buffer_input(self, input) ==
    [self EXCEPT !.inputs = Append(self.inputs, input)]

day07_jump_if_false(self, pa, pb) ==
    LET cond == day07_deref(self, pa)
        addr == day07_deref(self, pb)
    IN IF cond.err # "" THEN Panic(self, cond.err)
       ELSE IF cond.val = 0
            THEN IF addr.err # "" THEN Panic(self, addr.err)
                 ELSE [self EXCEPT !.ip = addr.val]
            ELSE self

day07_jump_if_true(self, pa, pb) ==
    LET cond == day07_deref(self, pa)
        addr == day07_deref(self, pb)
    IN IF cond.err # "" THEN Panic(self, cond.err)
       ELSE IF cond.val # 0
            THEN IF addr.err # "" THEN Panic(self, addr.err)
                 ELSE [self EXCEPT !.ip = addr.val]
            ELSE self

day07_read_word_and_advance(self) ==
    LET n == day07_read(self, self.ip)
        next == I32Checked(self.ip + 1)
    IN IF n.err # "" THEN [m |-> Panic(self, n.err), val |-> 0]
       ELSE IF next.err # "" THEN [m |-> Panic(self, next.err), val |-> 0]
       ELSE [m |-> [self EXCEPT !.ip = next.val], val |-> n.val]

day07_read_op_and_advance(self) == day07_read_word_and_advance(self)

day07_read_param_and_advance(self, ptype) ==
    LET r == day07_read_word_and_advance(self)
    IN IF Panicked(r.m) THEN r
       ELSE CASE ptype = PARAM_TYPE_POSITION -> [m |-> r.m, val |-> Position(r.val)]
              [] ptype = PARAM_TYPE_IMMEDIATE -> [m |-> r.m, val |-> Immediate(r.val)]
              [] OTHER -> [m |-> Panic(r.m, "Unknown parameter type"), val |-> 0]

\* Option<i32> is a sequence of length 0 or 1
day07_read_input(self) ==
    IF self.inputs = <<>> THEN [m |-> self, val |-> <<>>]
    ELSE [m |-> [self EXCEPT !.inputs = Tail(self.inputs)],
          val |-> <<Head(self.inputs)>>]

\* the macro op_read_params!(kind, count)
RECURSIVE day07_op_read_params_inner(_, _, _, _, _)
day07_op_read_params_inner(self, word, argno, count, acc) ==
    IF argno = count THEN [m |-> self, val |-> acc]
    ELSE LET r == day07_read_param_and_advance(self, day07_param_type(word, argno))
         IN IF Panicked(r.m) THEN [m |-> r.m, val |-> acc]
            ELSE day07_op_read_params_inner(r.m, word, argno + 1, count, Append(acc, r.val))

day07_op_read_params(self, word, kind, count) ==
    LET r == day07_op_read_params_inner(self, word, 0, count, <<>>)
    IN IF Panicked(r.m) THEN r.m
       ELSE [r.m EXCEPT !.op = SomeOp(kind, r.val)]

day07_read_next_instruction(self) ==
    LET r == day07_read_op_and_advance(self)
        code == day07_opcode(r.val)
    IN IF Panicked(r.m) THEN r.m
       ELSE CASE code = OP_ADD -> day07_op_read_params(r.m, r.val, "Add", 3)
              [] code = OP_MUL -> day07_op_read_params(r.m, r.val, "Mul", 3)
              [] code = OP_STORE_INPUT -> day07_op_read_params(r.m, r.val, "StoreInput", 1)
              [] code = OP_WRITE_OUTPUT -> day07_op_read_params(r.m, r.val, "WriteOutput", 1)
              [] code = OP_JUMP_IF_TRUE -> day07_op_read_params(r.m, r.val, "JumpIfTrue", 2)
              [] code = OP_JUMP_IF_FALSE -> day07_op_read_params(r.m, r.val, "JumpIfFalse", 2)
              [] code = OP_LESS_THAN -> day07_op_read_params(r.m, r.val, "LessThan", 3)
              [] code = OP_EQUALS -> day07_op_read_params(r.m, r.val, "Equals", 3)
              [] code = OP_HALT -> [r.m EXCEPT !.op = SomeOp("Halt", <<>>)]
              [] OTHER -> Panic(r.m, "Unknown opcode")

day07_store_input(self, pa) ==
    LET r == day07_read_input(self)
    IN IF r.val # <<>>
       THEN IF pa.mode = "Position" THEN day07_write(r.m, pa.value, r.val[1])
            ELSE Panic(r.m, "StoreInput arg0 must be Position type")
       ELSE [self EXCEPT !.state = "AwaitingInput"]

day07_write_output(self, pa) ==
    LET value == day07_deref(self, pa)
    IN IF value.err # "" THEN Panic(self, value.err)
       ELSE [self EXCEPT !.outputs = Append(self.outputs, value.val)]

day07_execute(self) ==
    LET p == self.op.params
        kind == self.op.kind
    IN CASE kind = "None" -> Panic(self, "expect op to be loaded")
         [] kind \in {"Add", "Mul", "LessThan", "Equals"} ->
               day07_binary_op(self, p[1], p[2], p[3], kind)
         [] kind = "StoreInput" -> day07_store_input(self, p[1])
         [] kind = "WriteOutput" -> day07_write_output(self, p[1])
         [] kind = "JumpIfTrue" -> day07_jump_if_true(self, p[1], p[2])
         [] kind = "JumpIfFalse" -> day07_jump_if_false(self, p[1], p[2])
         [] kind = "Halt" -> [self EXCEPT !.state = "Halted"]

\* resume and start up to their call of compute()
day07_resume(self) ==
    IF self.state # "AwaitingInput"
    THEN Panic(self, "assertion failed: AwaitingInput == state")
    ELSE IF ~(0 # Len(self.inputs))
         THEN Panic(self, "assertion failed: 0 != inputs.len()")
         ELSE day07_execute([self EXCEPT !.state = "Running"])

day07_start(self) ==
    IF self.state # "Initial"
    THEN Panic(self, "assertion failed: Initial == state")
    ELSE IF ~(0 = self.ip)
         THEN Panic(self, "assertion failed: 0 == ip")
         ELSE [self EXCEPT !.state = "Running"]

day07_start_or_resume(self) ==
    CASE self.state = "Initial" -> day07_start(self)
      [] self.state = "AwaitingInput" -> day07_resume(self)
      [] OTHER -> Panic(self, "unexpected state")

\* the body of the loop of compute()
day07_execute_read(r) == IF Panicked(r) THEN r ELSE day07_execute(r)

day07_compute_body(self) == day07_execute_read(day07_read_next_instruction(self))

\* most amplifiers of a chain
MaxAmps == 3

\* Itertools::permutations(n) of n items: every order of the items, in
\* lexicographic order of their positions
Remove(s, i) == SubSeq(s, 1, i - 1) \o SubSeq(s, i + 1, Len(s))
Prefixed(x, ps) == [k \in 1..Len(ps) |-> <<x>> \o ps[k]]

RECURSIVE permutations(_)
RECURSIVE PermutationsFrom(_, _)
PermutationsFrom(s, i) ==
    IF i > Len(s) THEN <<>>
    ELSE Prefixed(s[i], permutations(Remove(s, i))) \o PermutationsFrom(s, i + 1)

permutations(s) == IF s = <<>> THEN <<(<<>>)>> ELSE PermutationsFrom(s, 1)

\* the first and second example of test::ex_part1
Serial == <<3, 15, 3, 16, 1002, 16, 10, 16, 1, 16, 15, 15, 4, 15, 99, 0, 0>>
SerialDown ==
    <<3, 23, 3, 24, 1002, 24, 10, 24, 1002, 23, -1, 23, 101, 5, 23, 23,
      1, 24, 23, 23, 4, 23, 99, 0, 0>>
\* the first example of test::ex_part2, with two trips round the loop
\* where the example has five
Feedback ==
    <<3, 26, 1001, 26, -4, 26, 3, 27, 1002, 27, 2, 27, 1, 27, 26, 27, 4, 27,
      1001, 28, -1, 28, 1005, 28, 6, 99, 0, 0, 2>>
\* an amplifier that halts after one segment when its phase is 0 and after
\* two otherwise
HaltsEarly == <<3, 0, 3, 1, 4, 1, 1005, 0, 10, 99, 3, 1, 4, 1, 99>>
\* an amplifier that multiplies its signal by the largest word
Overflowing == <<3, 0, 3, 1, 1002, 1, I32Max, 1, 1001, 1, I32Max, 1, 4, 1, 99>>

\* those, and amplifiers with two outputs or none in a segment
AmpPrograms ==
    {Serial, SerialDown, Feedback, HaltsEarly, Overflowing, InTwoOutTwo,
     <<3, 0, 99>>, <<3, 0, 3, 1, 99>>, <<104, 1, 99>>, <<99>>}

\* the phases 0.. and 5.. of the tests
AmpPhases ==
    {[k \in 1..n |-> k - 1] : n \in 1..MaxAmps} \cup {[k \in 1..n |-> k + 4] : n \in 1..MaxAmps}

AmpIds == 0..(Len(locals.amps) - 1)

AllHalted == \A k \in AmpIds : computers[k].state = "Halted"

AmpFrame == UNCHANGED <<overflow_checks, pending, nwrites, given, drained>>

AmpInit ==
    /\ \E initial \in AmpPrograms : \E amps \in AmpPhases :
          /\ computers = [k \in 0..(Len(amps) - 1) |-> day07_new(initial)]
          /\ call = [k \in 0..(Len(amps) - 1) |-> Call("new", "", <<initial>>, <<>>)]
          /\ pc = [k \in 0..(Len(amps) - 1) |-> "caller"]
          /\ pending = [k \in 0..(Len(amps) - 1) |-> <<>>]
          /\ drained = [k \in 0..(Len(amps) - 1) |-> <<>>]
          /\ locals = [fn |-> "max_thruster", at |-> "permutations",
                       initial |-> initial, amps |-> amps,
                       phase_sequences |-> permutations(amps),
                       phase_sequence |-> <<>>, seq |-> 1,
                       input_signal |-> 0, amp |-> 0,
                       max |-> None, result |-> None]
    /\ overflow_checks \in BOOLEAN
    /\ nwrites = 0
    /\ given = Given(<<>>)
    /\ script = <<>>

\* while let Some(phase_sequence) = phase_sequences.next(): the chain is
\* built anew
AmpNextPermutation ==
    /\ locals.at = "permutations"
    /\ locals.phase_sequences # <<>>
    /\ locals' = [locals EXCEPT !.phase_sequence = Head(locals.phase_sequences),
                                !.phase_sequences = Tail(@),
                                !.input_signal = 0,
                                !.seq = 1,
                                !.amp = 0,
                                !.at = "while"]
    /\ computers' = [k \in AmpIds |-> day07_new(locals.initial)]
    /\ call' = [k \in AmpIds |-> Call("new", "", <<locals.initial>>, <<>>)]
    /\ script' = <<>>
    /\ UNCHANGED pc
    /\ AmpFrame

\* the permutations are used up: max.unwrap()
AmpFinish ==
    /\ locals.at = "permutations"
    /\ locals.phase_sequences = <<>>
    /\ locals' = IF locals.max = None THEN DriverPanic(locals)
                 ELSE Returned_(locals, locals.max[1])
    /\ UNCHANGED <<machineVars, script>>
    /\ AmpFrame

\* the body of the inner loop up to start_or_resume: the amplifier is
\* given its phase while seq has one, and the signal
AmpFeed ==
    /\ locals.at = "while"
    /\ ~AllHalted
    /\ LET amp == locals.amp
           phase == IF locals.seq <= Len(locals.phase_sequence)
                    THEN Some(locals.phase_sequence[locals.seq]) ELSE None
           vals == phase \o <<locals.input_signal>>
       IN /\ computers' = [computers EXCEPT ![amp] =
                              IF phase # None
                              THEN day07_buffer_input(day07_buffer_input(@, phase[1]),
                                                      locals.input_signal)
                              ELSE day07_buffer_input(@, locals.input_signal)]
          /\ call' = [call EXCEPT ![amp] =
                        Call("buffer_input", computers[amp].state, <<locals.input_signal>>, <<>>)]
          /\ locals' = [locals EXCEPT !.seq = IF phase # None THEN @ + 1 ELSE @,
                                      !.at = "start_or_resume"]
          /\ script' = Append(script, In(amp, 0, vals))
    /\ UNCHANGED pc
    /\ AmpFrame

\* the amplifier whose turn it is after a step of compute(), which goes on
\* unless it panicked
AmpBecomes(self) ==
    /\ computers' = [computers EXCEPT ![locals.amp] = self]
    /\ pc' = [pc EXCEPT ![locals.amp] = After(self, "compute")]
    /\ locals' = [locals EXCEPT !.at = IF Panicked(self) THEN "panicked" ELSE "running"]

\* computer.start_or_resume()
AmpStartOrResume ==
    /\ locals.at = "start_or_resume"
    /\ LET amp == locals.amp
           self == day07_start_or_resume(computers[amp])
       IN /\ computers' = [computers EXCEPT ![amp] = self]
          /\ pc' = [pc EXCEPT ![amp] = After(self, "compute")]
          /\ call' = [call EXCEPT ![amp] =
                        Call("start_or_resume", computers[amp].state, <<>>, <<>>)]
          /\ locals' = [locals EXCEPT !.at = IF Panicked(self) THEN "panicked" ELSE "running"]
    /\ UNCHANGED script
    /\ AmpFrame

\* one turn of the loop of compute()
AmpStep ==
    /\ locals.at = "running"
    /\ pc[locals.amp] = "compute"
    /\ computers[locals.amp].state = "Running"
    /\ AmpBecomes(day07_compute_body(computers[locals.amp]))
    /\ UNCHANGED <<call, script>>
    /\ AmpFrame

\* compute() and start_or_resume() return
AmpReturn ==
    /\ locals.at = "running"
    /\ pc[locals.amp] = "compute"
    /\ computers[locals.amp].state # "Running"
    /\ pc' = [pc EXCEPT ![locals.amp] = "caller"]
    /\ locals' = [locals EXCEPT !.at = "collect"]
    /\ UNCHANGED <<computers, call, script>>
    /\ AmpFrame

\* the signal is left as it was
AmpCollectStale ==
    /\ locals.at = "collect"
    /\ LET amp == locals.amp
           outputs == computers[amp].outputs
       IN /\ script' = Append(script, Out(amp, outputs))
          /\ IF Len(outputs) # 1
             THEN /\ locals' = DriverPanic(locals)
                  /\ UNCHANGED computers
             ELSE /\ locals' = [locals EXCEPT !.amp = (amp + 1) % Len(locals.amps),
                                             !.at = "while"]
                  /\ computers' = [computers EXCEPT ![amp].outputs =
                                      SubSeq(outputs, 1, Len(outputs) - 1)]
    /\ UNCHANGED <<pc, call>>
    /\ AmpFrame

\* the rest of the body: the segment's one output becomes the signal and
\* the next amplifier has its turn
AmpCollect ==
    /\ locals.at = "collect"
    /\ LET amp == locals.amp
           outputs == computers[amp].outputs
       IN /\ script' = Append(script, Out(amp, outputs))
          /\ IF Len(outputs) # 1
             THEN /\ locals' = DriverPanic(locals)
                  /\ UNCHANGED computers
             ELSE /\ locals' = [locals EXCEPT !.input_signal = outputs[Len(outputs)],
                                             !.amp = (amp + 1) % Len(locals.amps),
                                             !.at = "while"]
                  /\ computers' = [computers EXCEPT ![amp].outputs =
                                      SubSeq(outputs, 1, Len(outputs) - 1)]
    /\ UNCHANGED <<pc, call>>
    /\ AmpFrame

\* every amplifier is Halted: the signal is the permutation's score
AmpScore ==
    /\ locals.at = "while"
    /\ AllHalted
    /\ LET final_output == locals.input_signal
       IN locals' = [locals EXCEPT
                        !.max = IF locals.max = None THEN Some(final_output)
                                ELSE IF final_output > locals.max[1] THEN Some(final_output)
                                ELSE locals.max,
                        !.at = "permutations"]
    /\ UNCHANGED <<machineVars, script>>
    /\ AmpFrame

AmpNext ==
    \/ AmpNextPermutation
    \/ AmpFinish
    \/ AmpFeed
    \/ AmpStartOrResume
    \/ AmpStep
    \/ AmpReturn
    \/ AmpCollect
    \/ AmpScore

SpecAmp == AmpInit /\ [][AmpNext]_vars

----------------------------------------------------------------------------
(* Properties.                                                             *)

Ids == DOMAIN computers

\* the step is a step of machine id
Stepped(id) ==
    \/ computers'[id] # computers[id]
    \/ pc'[id] # pc[id]
    \/ call'[id] # call[id]

\* the step is the caller's call of `name` on machine id
Called(id, name) ==
    /\ pc[id] = "caller"
    /\ Stepped(id)
    /\ call'[id].name = name

\* the step leaves every field of the struct as it was
FieldsUnchanged(id) ==
    computers'[id] = [computers[id] EXCEPT !.panicked = computers'[id].panicked]

\* the step is a call that panicked before changing anything
Faulted(id) ==
    /\ pc'[id] = "aborted"
    /\ FieldsUnchanged(id)

\* C1: the machine state changes only along Initial -> Running (start),
\* Running -> AwaitingInput (StoreInput executed on an empty input queue),
\* AwaitingInput -> Running (resume) and Running -> Halted (Halt), and no
\* step of any kind takes a Halted machine out of Halted.
StateTransitionsOnly ==
    [][\A id \in Ids :
        LET self == computers[id]
            s == computers[id].state
            t == computers'[id].state
        IN /\ s # t =>
                \/ /\ s = "Initial" /\ t = "Running"
                   /\ Called(id, "start") \/ Called(id, "start_or_resume")
                \/ /\ s = "Running" /\ t = "AwaitingInput"
                   /\ pc[id] = "execute"
                   /\ self.op.kind = "StoreInput"
                   /\ self.inputs = <<>>
                \/ /\ s = "AwaitingInput" /\ t = "Running"
                   /\ Called(id, "resume") \/ Called(id, "start_or_resume")
                \/ /\ s = "Running" /\ t = "Halted"
                   /\ pc[id] = "execute"
                   /\ self.op.kind = "Halt"
           /\ s = "Halted" => t = "Halted"]_vars

\* resume() was called on a halted machine holding input, and faulted
HaltedResumeRefused ==
    /\ computers[0].state = "Halted"
    /\ computers[0].inputs # <<>>
    /\ call[0].name = "resume"
    /\ pc[0] = "aborted"

\* C2: when both runs have ended, the run given its input in pieces has
\* the memory, outputs, relative base and state (and the fault, if any) of
\* the run given all of it before start().
SplitDeliveryEquivalent ==
    Done(0) /\ Done(1) =>
        /\ computers[1].memory = computers[0].memory
        /\ computers[1].outputs = computers[0].outputs
        /\ computers[1].relative_base = computers[0].relative_base
        /\ computers[1].state = computers[0].state
        /\ Panicked(computers[1]) <=> Panicked(computers[0])

\* both runs halted, the split one after blocking and being resumed, and
\* the input reached the output
SplitRunResumedToHalt ==
    /\ Done(0) /\ Done(1)
    /\ computers[1].state = "Halted"
    /\ call[1].name = "resume"
    /\ computers[1].outputs # <<>>

\* C3: executing StoreInput on an empty input queue is no fault: the state
\* becomes AwaitingInput and nothing else of the machine changes, and the
\* loop of compute then returns without fetching or changing anything.
BlockedStoreInputChangesNothing ==
    [][\A id \in Ids :
        LET self == computers[id]
        IN /\ /\ Stepped(id)
              /\ pc[id] = "execute"
              /\ self.op.kind = "StoreInput"
              /\ self.inputs = <<>>
              => /\ computers'[id] = [self EXCEPT !.state = "AwaitingInput"]
                 /\ pc'[id] = "compute"
           /\ /\ Stepped(id)
              /\ pc[id] = "compute"
              /\ self.state = "AwaitingInput"
              => /\ computers'[id] = self
                 /\ pc'[id] = "caller"]_vars

\* a StoreInput that is not the first instruction has just blocked
BlockedAfterOutput ==
    /\ computers[0].state = "AwaitingInput"
    /\ pc[0] = "compute"
    /\ computers[0].op.kind = "StoreInput"
    /\ computers[0].ip > 2

\* the address a write-target parameter names
TargetAddr(self, pa) ==
    IF pa.mode = "Relative" THEN pa.value + self.relative_base ELSE pa.value

\* C4: resume() faults unless the state is AwaitingInput and the input
\* queue is not empty.  Otherwise it re-executes the blocked StoreInput as
\* decoded: the instruction pointer and the pending instruction stay, the
\* oldest queued value alone is popped and stored at the target the
\* instruction names, and compute carries on from the instruction pointer,
\* which has been at the word after the StoreInput since it was decoded.
ResumeReexecutesBlockedStoreInput ==
    [][\A id \in Ids :
        LET self == computers[id]
            after == computers'[id]
        IN /\ Called(id, "resume") =>
                IF self.state # "AwaitingInput" \/ self.inputs = <<>>
                THEN Faulted(id)
                ELSE LET pa == self.op.params[1]
                         addr == TargetAddr(self, pa)
                     IN /\ self.op.kind = "StoreInput"
                        /\ after.ip = self.ip
                        /\ after.op = self.op
                        /\ after.inputs = Tail(self.inputs)
                        /\ after.outputs = self.outputs
                        /\ after.relative_base = self.relative_base
                        /\ InRange(addr) =>
                             IF pa.mode # "Immediate" /\ addr >= 0
                             THEN /\ pc'[id] = "compute"
                                  /\ after.state = "Running"
                                  /\ Len(after.memory) >= addr + 1
                                  /\ after.memory[addr + 1] = Head(self.inputs)
                                  /\ \A i \in 1..Len(self.memory) :
                                        i # addr + 1 => after.memory[i] = self.memory[i]
                             ELSE /\ pc'[id] = "aborted"
                                  /\ after.memory = self.memory
           /\ /\ Stepped(id)
              /\ self.state = "AwaitingInput" \/ after.state = "AwaitingInput"
              => after.ip = self.ip /\ after.op = self.op
           /\ /\ pc[id] = "compute"
              /\ pc'[id] = "execute"
              /\ after.op.kind = "StoreInput"
              => after.ip = self.ip + 2]_vars

\* resume() has re-executed a StoreInput while a second value was queued,
\* and compute is about to fetch the next instruction
ResumedWithValueLeft ==
    /\ call[0].name = "resume"
    /\ pc[0] = "compute"
    /\ computers[0].state = "Running"
    /\ computers[0].op.kind = "StoreInput"
    /\ computers[0].inputs # <<>>

\* C5: new(program) gives an Initial machine with instruction pointer 0,
\* relative base 0, empty queues and the program as memory; buffer_input
\* and write leave it Initial with instruction pointer 0; start() is
\* accepted in Initial and faults in every other state.
NewThenStartOnlyOnce ==
    /\ [](\A id \in Ids :
            call[id].name = "new" =>
                /\ computers[id].state = "Initial"
                /\ computers[id].ip = 0
                /\ computers[id].relative_base = 0
                /\ computers[id].inputs = <<>>
                /\ computers[id].outputs = <<>>
                /\ computers[id].memory = call[id].args[1])
    /\ [][\A id \in Ids :
            LET self == computers[id]
                after == computers'[id]
            IN /\ /\ self.state = "Initial"
                  /\ Called(id, "buffer_input") \/ Called(id, "write")
                  => after.state = "Initial" /\ after.ip = 0
               /\ Called(id, "start") =>
                    IF self.state = "Initial"
                    THEN /\ pc'[id] = "compute"
                         /\ after = [self EXCEPT !.state = "Running"]
                    ELSE Faulted(id)]_vars

\* start() was called on a machine that had been started and is blocked
SecondStartRefused ==
    /\ call[0].name = "start"
    /\ call[0].from = "AwaitingInput"
    /\ pc[0] = "aborted"

\* C6: whenever control is with the caller the machine is Initial,
\* AwaitingInput or Halted, and after start, resume or start_or_resume
\* returned it is AwaitingInput or Halted; a machine is AwaitingInput only
\* with a StoreInput pending, and it got there on an empty input queue.
RunSegmentEndsBlockedOrHalted ==
    \A id \in Ids :
        LET self == computers[id]
        IN /\ pc[id] = "caller" =>
                self.state \in {"Initial", "AwaitingInput", "Halted"}
           /\ pc[id] = "caller" /\ call[id].name \in RunCalls =>
                self.state \in {"AwaitingInput", "Halted"}
           /\ self.state = "AwaitingInput" => self.op.kind = "StoreInput"
           /\ /\ self.state = "AwaitingInput"
              /\ pc[id] = "compute" \/ (pc[id] = "caller" /\ call[id].name \in RunCalls)
              => self.inputs = <<>>

\* resume() returned to the caller with the machine blocked again
ResumeReturnedBlocked ==
    /\ pc[0] = "caller"
    /\ call[0].name = "resume"
    /\ computers[0].state = "AwaitingInput"

\* C7: executing Halt sets the state to Halted and changes nothing else;
\* from then on compute only returns, and start, resume and
\* start_or_resume fault, so the engine never again changes memory, the
\* instruction pointer, the relative base or the queues.
HaltStopsTheEngine ==
    [][\A id \in Ids :
        LET self == computers[id]
            after == computers'[id]
        IN /\ /\ Stepped(id)
              /\ pc[id] = "execute"
              /\ self.op.kind = "Halt"
              => /\ after = [self EXCEPT !.state = "Halted"]
                 /\ pc'[id] = "compute"
           /\ /\ Stepped(id)
              /\ self.state = "Halted"
              /\ pc[id] # "caller"
              => /\ after = self
                 /\ pc'[id] = "caller"
           /\ /\ self.state = "Halted"
              /\ \E name \in RunCalls : Called(id, name)
              => Faulted(id)]_vars

\* Halt has just executed, after output was written
HaltedInsideCompute ==
    /\ computers[0].state = "Halted"
    /\ pc[0] = "compute"
    /\ computers[0].outputs # <<>>

\* C8: start_or_resume() does what start() does on an Initial machine and
\* what resume() does on an AwaitingInput machine (faulting like resume on
\* an empty input queue), and faults in every other state.
StartOrResumeDispatches ==
    [][\A id \in Ids :
        LET self == computers[id]
            after == computers'[id]
        IN Called(id, "start_or_resume") =>
              CASE self.state = "Initial" ->
                      /\ after = start(self)
                      /\ after = [self EXCEPT !.state = "Running"]
                      /\ pc'[id] = "compute"
                [] self.state = "AwaitingInput" ->
                      /\ after = resume(self)
                      /\ self.inputs = <<>> => Faulted(id)
                      /\ self.inputs # <<>> => after.inputs = Tail(self.inputs)
                      /\ pc'[id] = After(after, "compute")
                [] OTHER -> Faulted(id)]_vars

\* start_or_resume() called on a blocked machine ran it to Halted
StartOrResumeResumedToHalt ==
    /\ call[0].name = "start_or_resume"
    /\ call[0].from = "AwaitingInput"
    /\ pc[0] = "caller"
    /\ computers[0].state = "Halted"

\* C9: read(addr) with addr >= 0 returns the stored value when addr is
\* within the memory and 0 when it is beyond it, and leaves the machine,
\* its memory included, as it was.
ReadReturnsStoredOrZero ==
    [][\A id \in Ids :
        LET self == computers[id]
            p == call'[id].args[1]
        IN Called(id, "read") /\ p >= 0 =>
              /\ computers'[id] = self
              /\ pc'[id] = "caller"
              /\ call'[id].ret =
                    <<IF p < Len(self.memory) THEN self.memory[p + 1] ELSE 0>>]_vars

\* the last cell of a memory was read and it is not zero
ReadLastCell ==
    /\ call[0].name = "read"
    /\ computers[0].memory # <<>>
    /\ call[0].args[1] = Len(computers[0].memory) - 1
    /\ call[0].ret = <<7>>

\* C10: write(addr, value) with addr >= 0 succeeds on every memory, the
\* empty one included: memory[addr] = value, the length is
\* max(old length, addr + 1), every other new cell is 0 and every other
\* old cell is unchanged.
WriteSucceedsOnEveryMemory ==
    [][\A id \in Ids :
        LET self == computers[id]
            after == computers'[id]
            p == call'[id].args[1]
            n == call'[id].args[2]
            len == IF Len(self.memory) > p + 1 THEN Len(self.memory) ELSE p + 1
        IN Called(id, "write") /\ p >= 0 =>
              /\ pc'[id] = "caller"
              /\ Len(after.memory) = len
              /\ \A i \in 1..Len(after.memory) :
                    after.memory[i] =
                        IF i = p + 1 THEN n
                        ELSE IF i <= Len(self.memory) THEN self.memory[i]
                        ELSE 0]_vars

\* C12: for every non-negative instruction word W the decoder's opcode is
\* W mod 100 and its mode for parameter i (i = 0, 1, 2) is
\* (W div 10^(i+2)) mod 10, which is 0 (Position) for a digit W does not
\* have.
DecoderReadsDecimalDigits ==
    \A id \in Ids :
        call[id].name = "OpDecoder" /\ call[id].args[1] >= 0 =>
            LET W == call[id].args[1]
                decoded == call[id].ret
            IN /\ decoded[1] = W % 100
               /\ \A i \in 0..2 :
                    /\ decoded[i + 2] = (W \div Pow(10, i + 2)) % 10
                    /\ W < Pow(10, i + 2) => decoded[i + 2] = PARAM_TYPE_POSITION

\* the word of the decoder's own example, 1002, was decoded as Mul with
\* modes Position, Immediate, Position
Decoded1002 ==
    /\ call[0].name = "OpDecoder"
    /\ call[0].args = <<1002>>
    /\ call[0].ret = <<OP_MUL, PARAM_TYPE_POSITION, PARAM_TYPE_IMMEDIATE,
                       PARAM_TYPE_POSITION>>


\* the instruction set as the specification tabulates it: kind and number
\* of parameters of each opcode, and the mode each mode digit stands for
KindOf(code) ==
    CASE code = 1 -> "Add" [] code = 2 -> "Mul" [] code = 3 -> "StoreInput"
      [] code = 4 -> "WriteOutput" [] code = 5 -> "JumpIfTrue"
      [] code = 6 -> "JumpIfFalse" [] code = 7 -> "LessThan"
      [] code = 8 -> "Equals" [] code = 9 -> "AdjustRelativeBase"
      [] code = 99 -> "Halt" [] OTHER -> "none"

Arity(kind) ==
    CASE kind = "Halt" -> 0
      [] kind \in {"StoreInput", "WriteOutput", "AdjustRelativeBase"} -> 1
      [] kind \in {"JumpIfTrue", "JumpIfFalse"} -> 2
      [] kind \in {"Add", "Mul", "LessThan", "Equals"} -> 3
      [] OTHER -> 0

ModeOf(digit) ==
    CASE digit = 0 -> "Position" [] digit = 1 -> "Immediate"
      [] digit = 2 -> "Relative" [] OTHER -> "none"

\* the word at address a >= 0 of the machine's memory
WordAt(self, a) == IF a < Len(self.memory) THEN self.memory[a + 1] ELSE 0

\* the step is a fetch of machine id, completed or faulted
Fetching(id) == pc[id] = "compute" /\ pc'[id] \in {"execute", "aborted"}
\* the step is a fetch of machine id that decoded an instruction
Decoded(id) == pc[id] = "compute" /\ pc'[id] = "execute"
\* the step is the execution, by machine id, of the instruction it holds
Executing(id) == pc[id] = "execute" /\ Stepped(id)

\* C13: a fetch that decodes an instruction leaves ip at old ip + 1 + arity
\* (arity 0 for Halt, 1 for StoreInput/WriteOutput/AdjustRelativeBase, 2 for
\* the jumps, 3 for Add/Mul/LessThan/Equals), and parameter i of the
\* instruction it loaded is the word at old ip + 1 + i tagged with the mode
\* of digit i of the instruction word; nothing else of the machine changes.
DecodeAdvancesPastInstruction ==
    [][\A id \in Ids :
        Decoded(id) =>
            LET self == computers[id]
                after == computers'[id]
                W == WordAt(self, self.ip)
                kind == KindOf(W % 100)
            IN /\ self.ip >= 0 /\ W >= 0
               /\ after.op.kind = kind
               /\ after.ip = self.ip + 1 + Arity(kind)
               /\ Len(after.op.params) = Arity(kind)
               /\ \A i \in 0..(Arity(kind) - 1) :
                    /\ after.op.params[i + 1].mode = ModeOf((W \div Pow(10, i + 2)) % 10)
                    /\ after.op.params[i + 1].value = WordAt(self, self.ip + 1 + i)
               /\ after = [self EXCEPT !.ip = after.ip, !.op = after.op]]_vars

\* an Add with parameters in Relative, Immediate and Position mode has been
\* decoded, and ip stands on the word after its third parameter
DecodedAddOfThreeModes ==
    /\ pc[0] = "execute"
    /\ computers[0].op.kind = "Add"
    /\ computers[0].op.params =
          <<Relative(HaltAddr), Immediate(IntcodeMax), Position(HaltAddr + 1)>>
    /\ computers[0].ip = InstrAddr + 4


RecognizedOpcodes == {1, 2, 3, 4, 5, 6, 7, 8, 9, 99}

\* C14: a fetch of an instruction word whose opcode (W mod 100; a negative
\* word has none) is outside {1,...,9,99} aborts the run at that fetch: no
\* instruction is loaded or executed for the word, memory, queues, relative
\* base and state are left alone, and an aborted run takes no further step.
UnknownOpcodeAbortsAtFetch ==
    [][\A id \in Ids :
        LET self == computers[id]
            after == computers'[id]
            W == WordAt(self, self.ip)
        IN /\ Fetching(id) /\ self.ip >= 0
                /\ (W < 0 \/ (W % 100) \notin RecognizedOpcodes) =>
                /\ pc'[id] = "aborted"
                /\ after = [self EXCEPT !.ip = after.ip, !.panicked = after.panicked]
           /\ pc[id] = "aborted" => ~Stepped(id)]_vars

\* the run was aborted at the fetch of a word with opcode 13, whose last
\* digit is the opcode of StoreInput; the instruction before it is still
\* the one loaded
AbortedOnOpcode13 ==
    /\ pc[0] = "aborted"
    /\ computers[0].panicked = "Unknown opcode"
    /\ computers[0].ip = InstrAddr + 1
    /\ WordAt(computers[0], InstrAddr) % 100 = 13
    /\ computers[0].op.kind = "AdjustRelativeBase"


Modes == {0, 1, 2}
ModeDigit(W, i) == (W \div Pow(10, i + 2)) % 10

\* C15 as stated: a fetch of an instruction word carrying, in any of its
\* three mode positions, a digit outside {0,1,2} aborts the run.
AnyBadModeDigitAborts ==
    [][\A id \in Ids :
        LET self == computers[id]
            W == WordAt(self, self.ip)
        IN Fetching(id) /\ self.ip >= 0 /\ W >= 0
             /\ (\E i \in 0..2 : ModeDigit(W, i) \notin Modes) =>
             pc'[id] = "aborted"]_vars

\* C15: a fetch of an instruction word with a recognized opcode and a mode
\* digit outside {0,1,2} for one of the parameters that opcode takes aborts
\* the run at that fetch, loading no instruction and leaving memory, queues,
\* relative base and state alone; a digit in a mode position beyond the
\* opcode's arity is not examined, and the word decodes.
BadModeOfTakenParameterAborts ==
    [][\A id \in Ids :
        LET self == computers[id]
            after == computers'[id]
            W == WordAt(self, self.ip)
            n == Arity(KindOf(W % 100))
        IN Fetching(id) /\ self.ip >= 0 /\ W >= 0
             /\ (W % 100) \in RecognizedOpcodes =>
             IF \E i \in 0..(n - 1) : ModeDigit(W, i) \notin Modes
             THEN /\ pc'[id] = "aborted"
                  /\ after = [self EXCEPT !.ip = after.ip, !.panicked = after.panicked]
             ELSE InRange(self.ip + 1 + n) => pc'[id] = "execute"]_vars

\* the run was aborted at the fetch of a WriteOutput whose parameter has
\* mode digit 3
AbortedOnMode3 ==
    /\ pc[0] = "aborted"
    /\ computers[0].panicked = "Unknown parameter type"
    /\ WordAt(computers[0], InstrAddr) = 304
    /\ computers[0].op.kind = "AdjustRelativeBase"
    /\ computers[0].outputs = <<>>


\* the instruction the machine holds writes a result and names its target
\* in Immediate mode
ImmediateTarget(self) ==
    /\ self.op.kind \in {"Add", "Mul", "LessThan", "Equals", "StoreInput"}
    /\ self.op.params[Len(self.op.params)].mode = "Immediate"

\* the step is the caller's resume of machine id, by either call
Resuming(id) ==
    /\ computers[id].state = "AwaitingInput"
    /\ Called(id, "resume") \/ Called(id, "start_or_resume")

\* C16 as stated: executing Add, Mul, LessThan, Equals or StoreInput with
\* an Immediate target always aborts the run, writing nothing and reaching
\* no state that is not a fault.
ImmediateTargetAlwaysFaults ==
    [][\A id \in Ids :
        Executing(id) /\ ImmediateTarget(computers[id]) =>
            /\ pc'[id] = "aborted"
            /\ computers'[id].memory = computers[id].memory]_vars

\* C16: Add, Mul, LessThan and Equals with an Immediate target abort the
\* run when executed, and so does StoreInput with an Immediate target when
\* executed or resumed with an input value queued, none of them writing
\* memory; StoreInput with an Immediate target executed on an empty queue
\* blocks in AwaitingInput like any other StoreInput, changing nothing
\* else, and the fault comes with the resume.  In no case is a later
\* instruction fetched.
ImmediateTargetFaultsOnceInputIsThere ==
    [][\A id \in Ids :
        LET self == computers[id]
            after == computers'[id]
            blocks == self.op.kind = "StoreInput" /\ self.inputs = <<>>
        IN ImmediateTarget(self) =>
            /\ Executing(id) /\ ~blocks =>
                  pc'[id] = "aborted" /\ after.memory = self.memory
            /\ Executing(id) /\ blocks =>
                  pc'[id] = "compute" /\ after = [self EXCEPT !.state = "AwaitingInput"]
            /\ Resuming(id) =>
                  pc'[id] = "aborted" /\ after.memory = self.memory
            /\ ~Fetching(id)]_vars

\* a StoreInput with an Immediate target blocked on the empty queue and was
\* resumed with a value: the resume took the value and aborted
ImmediateStoreFaultedOnResume ==
    /\ pc[0] = "aborted"
    /\ call[0].name = "resume"
    /\ computers[0].op = SomeOp("StoreInput", <<Immediate(HaltAddr)>>)
    /\ computers[0].panicked = "StoreInput arg0 must be Position or Relative"
    /\ computers[0].inputs = <<>>
    /\ computers[0].memory = given[0].program


\* the parameter names, in Position or Relative mode, an address below 0
\* (an Intcode: the sum of a Relative parameter has not left the word)
NegativeAddr(self, pa) ==
    /\ pa.mode \in {"Position", "Relative"}
    /\ TargetAddr(self, pa) < 0
    /\ TargetAddr(self, pa) >= IntcodeMin

\* the value of an operand whose address is in the machine's memory space
ValueOf(self, pa) ==
    IF pa.mode = "Immediate" THEN pa.value ELSE WordAt(self, TargetAddr(self, pa))

\* a jump's condition holds
JumpTaken(self) ==
    LET cond == ValueOf(self, self.op.params[1])
    IN IF self.op.kind = "JumpIfTrue" THEN cond # 0 ELSE cond = 0

\* the parameters (1-based) whose address executing the instruction held
\* would access: a StoreInput accesses its target only when it has a value
\* to store, a jump its second operand only when the jump is taken
Accessed(self) ==
    LET kind == self.op.kind
    IN CASE kind \in {"Add", "Mul", "LessThan", "Equals"} -> {1, 2, 3}
         [] kind \in {"WriteOutput", "AdjustRelativeBase"} -> {1}
         [] kind = "StoreInput" -> IF self.inputs = <<>> THEN {} ELSE {1}
         [] kind \in {"JumpIfTrue", "JumpIfFalse"} ->
               IF NegativeAddr(self, self.op.params[1]) THEN {1}
               ELSE IF JumpTaken(self) THEN {1, 2} ELSE {1}
         [] OTHER -> {}

\* the step leaves memory, outputs, ip and relative base as they were
NothingReadOrWritten(id) ==
    /\ computers'[id].memory = computers[id].memory
    /\ computers'[id].outputs = computers[id].outputs
    /\ computers'[id].ip = computers[id].ip
    /\ computers'[id].relative_base = computers[id].relative_base

\* C11: every memory access at a negative address aborts the run with
\* nothing read or written: executing (or resuming) an instruction that
\* accesses a Position parameter with a negative address or a Relative
\* parameter with relative_base + offset < 0, as operand or as write
\* target; a caller write at a negative address; and the fetch that follows
\* a jump to a negative address.
NegativeAddressFaults ==
    [][\A id \in Ids :
        LET self == computers[id]
            negative == \E i \in Accessed(self) : NegativeAddr(self, self.op.params[i])
        IN /\ Executing(id) /\ negative =>
                pc'[id] = "aborted" /\ NothingReadOrWritten(id)
           /\ Resuming(id) /\ negative =>
                pc'[id] = "aborted" /\ NothingReadOrWritten(id)
           /\ Called(id, "write") /\ call'[id].args[1] < 0 => Faulted(id)
           /\ pc[id] = "compute" /\ Stepped(id) /\ compute_continues(self)
                /\ self.ip < 0 => Faulted(id)]_vars

\* an Add whose operands are fine and whose target is Relative with
\* relative_base + offset = -1 aborted without writing
AddToNegativeRelativeTargetAborted ==
    /\ pc[0] = "aborted"
    /\ computers[0].op =
          SomeOp("Add", <<Immediate(HaltAddr), Position(HaltAddr), Relative(-InstrBase - 1)>>)
    /\ computers[0].relative_base = InstrBase
    /\ computers[0].panicked = "assertion failed: p >= 0"
    /\ computers[0].memory = given[0].program


\* the parameter, read as an operand, names a value: it is Immediate, or
\* its address is neither negative nor beyond the Intcode word
OperandOK(self, pa) ==
    \/ pa.mode = "Immediate"
    \/ TargetAddr(self, pa) >= 0 /\ InRange(TargetAddr(self, pa))

\* the parameter, as a write target, names a cell
TargetOK(self, pa) ==
    /\ pa.mode \in {"Position", "Relative"}
    /\ TargetAddr(self, pa) >= 0 /\ InRange(TargetAddr(self, pa))

\* memory with value v stored at address t and nothing else changed: cells
\* between the old end and t are new and hold 0
Written(memory, t, v) ==
    [i \in 1..(IF t + 1 > Len(memory) THEN t + 1 ELSE Len(memory)) |->
        IF i = t + 1 THEN v ELSE IF i <= Len(memory) THEN memory[i] ELSE 0]

\* the step executes an instruction of one of the kinds, with operands and
\* target that name values and a cell
ExecutingBinary(id, kinds) ==
    /\ Executing(id)
    /\ computers[id].op.kind \in kinds
    /\ OperandOK(computers[id], computers[id].op.params[1])
    /\ OperandOK(computers[id], computers[id].op.params[2])
    /\ TargetOK(computers[id], computers[id].op.params[3])

\* the step stores v at the target of the instruction held and changes
\* nothing else of the machine
Stores(id, v) ==
    /\ pc'[id] = "compute"
    /\ computers'[id] =
          [computers[id] EXCEPT !.memory =
              Written(@, TargetAddr(computers[id], computers[id].op.params[3]), v)]

\* C17: executing Add(a,b,c) stores deref(a) + deref(b), and Mul(a,b,c)
\* stores deref(a) * deref(b), at the address of c, the operands being the
\* values before the write, and changes no other cell, no queue and not the
\* relative base (nor ip or state); when the exact result does not fit the
\* Intcode word the instruction either aborts the run or stores the result
\* reduced to the word.  [1,0,0,0,99] halts with memory [2,0,0,0,99] and
\* [2,3,0,3,99] with [2,3,0,6,99].
AddAndMulStoreTheResult ==
    [][\A id \in Ids :
        LET self == computers[id]
            a == ValueOf(self, self.op.params[1])
            b == ValueOf(self, self.op.params[2])
            exact == IF self.op.kind = "Add" THEN a + b ELSE a * b
        IN /\ ExecutingBinary(id, {"Add", "Mul"}) =>
                IF InRange(exact) THEN Stores(id, exact)
                ELSE Faulted(id) \/ Stores(id, Wrap(exact))
           /\ computers'[id].state = "Halted" =>
                /\ given[id].program = Add1 => computers'[id].memory = <<2, 0, 0, 0, 99>>
                /\ given[id].program = Mul3 => computers'[id].memory = <<2, 3, 0, 6, 99>>]_vars

\* [2,3,0,3,99] has halted, with the product of cells 3 and 0 in cell 3
Mul3Halted ==
    /\ given[0].program = Mul3
    /\ computers[0].state = "Halted"
    /\ computers[0].memory = <<2, 3, 0, 6, 99>>
    /\ pc[0] = "caller"

\* the output the tests of aoc-2019-05 expect of a comparison example
ExpectedOutput(program, input) ==
    IF program \in {Eq8Pos, Eq8Imm} THEN (IF input = 8 THEN 1 ELSE 0)
    ELSE (IF input < 8 THEN 1 ELSE 0)

\* C18: executing LessThan(a,b,c) stores exactly 1 at c when
\* deref(a) < deref(b) and exactly 0 otherwise, and Equals(a,b,c) exactly 1
\* when deref(a) = deref(b) and exactly 0 otherwise, for operands of either
\* sign in every mode, changing nothing else; 3,9,8,9,10,9,4,9,99,-1,8
\* halts with the single output 1 on input 8 and 0 on any other input (and
\* so does its Immediate-mode twin; the two less-than-8 examples output 1
\* exactly on inputs below 8).
ComparisonsStoreOneOrZero ==
    [][\A id \in Ids :
        LET self == computers[id]
            a == ValueOf(self, self.op.params[1])
            b == ValueOf(self, self.op.params[2])
            holds == IF self.op.kind = "LessThan" THEN a < b ELSE a = b
        IN /\ ExecutingBinary(id, {"LessThan", "Equals"}) =>
                Stores(id, IF holds THEN 1 ELSE 0)
           /\ /\ computers'[id].state = "Halted"
              /\ given[id].program \in {Eq8Pos, Eq8Imm, Lt8Pos, Lt8Imm}
              /\ given[id].inputs # <<>>
              => computers'[id].outputs =
                    <<ExpectedOutput(given[id].program, given[id].inputs[1])>>]_vars

\* the equal-to-8 example has halted on input 8 with output 1
Eq8OutputsOneOn8 ==
    /\ given[0] = [program |-> Eq8Pos, inputs |-> <<8>>]
    /\ computers[0].state = "Halted"
    /\ computers[0].outputs = <<1>>
    /\ computers[0].memory[10] = 1


\* the output the tests of aoc-2019-05 expect of a jump example
ExpectedNonZero(input) == IF input = 0 THEN 0 ELSE 1

\* C19: executing JumpIfTrue(a,b) sets ip to deref(b) exactly when
\* deref(a) is not 0, and JumpIfFalse(a,b) exactly when deref(a) is 0;
\* otherwise ip stays where the decode left it, on the word after the
\* instruction's three words (b is then not even read); either way memory,
\* queues, relative base and state are unchanged.  The two is-it-non-zero
\* examples halt with output 0 on input 0 and 1 on any other input.
JumpsSetIpWhenConditionHolds ==
    [][\A id \in Ids :
        LET self == computers[id]
            after == computers'[id]
            params == self.op.params
        IN /\ /\ Executing(id)
              /\ self.op.kind \in {"JumpIfTrue", "JumpIfFalse"}
              /\ OperandOK(self, params[1])
              => /\ self.ip >= 3
                 /\ KindOf(WordAt(self, self.ip - 3) % 100) = self.op.kind
                 /\ params[1].value = WordAt(self, self.ip - 2)
                 /\ params[2].value = WordAt(self, self.ip - 1)
                 /\ IF JumpTaken(self)
                    THEN OperandOK(self, params[2]) =>
                            /\ pc'[id] = "compute"
                            /\ after = [self EXCEPT !.ip = ValueOf(self, params[2])]
                    ELSE pc'[id] = "compute" /\ after = self
           /\ /\ after.state = "Halted"
              /\ given[id].program \in {Ne0Pos, Ne0Imm}
              /\ given[id].inputs # <<>>
              => after.outputs = <<ExpectedNonZero(given[id].inputs[1])>>]_vars

\* a JumpIfFalse whose condition, read beyond memory, is 0 has jumped to
\* the Halt
JumpIfFalseTaken ==
    /\ pc[0] = "compute"
    /\ computers[0].op =
          SomeOp("JumpIfFalse", <<Position(IntcodeMax), Immediate(HaltAddr)>>)
    /\ computers[0].ip = HaltAddr
    /\ computers[0].state = "Running"

\* C20: the relative base is 0 after new() and changes only when an
\* AdjustRelativeBase(a) is executed, which adds deref(a) to it (when the
\* exact sum does not fit the Intcode word the instruction aborts the run
\* or leaves the sum reduced to the word) and changes nothing else; no
\* other instruction and no caller operation changes it; and a Relative(o)
\* parameter is resolved to address relative_base + o with the relative
\* base the machine has when the instruction executes, as the operand of
\* WriteOutput and as the target of StoreInput alike.
RelativeBaseMovesOnlyByAdjust ==
    /\ \A id \in Ids : computers[id].relative_base = 0
    /\ [][\A id \in Ids :
        LET self == computers[id]
            after == computers'[id]
            kind == self.op.kind
            rb == self.relative_base
            pa == self.op.params[1]
        IN /\ after.relative_base # rb =>
                Executing(id) /\ kind = "AdjustRelativeBase"
           /\ Executing(id) /\ kind = "AdjustRelativeBase" /\ OperandOK(self, pa) =>
                LET exact == rb + ValueOf(self, pa)
                    moved(v) == /\ pc'[id] = "compute"
                                /\ after = [self EXCEPT !.relative_base = v]
                IN IF InRange(exact) THEN moved(exact)
                   ELSE Faulted(id) \/ moved(Wrap(exact))
           /\ /\ Executing(id) \/ Resuming(id)
              /\ kind \in {"WriteOutput", "StoreInput"}
              /\ pa.mode = "Relative"
              /\ rb + pa.value >= 0 /\ InRange(rb + pa.value)
              => /\ kind = "WriteOutput" =>
                      after.outputs = Append(self.outputs, WordAt(self, rb + pa.value))
                 /\ kind = "StoreInput" /\ self.inputs # <<>> =>
                      after.memory = Written(self.memory, rb + pa.value, Head(self.inputs))]_vars

\* a second AdjustRelativeBase has added its Immediate operand to the
\* relative base the first one set
RelativeBaseAdjustedTwice ==
    /\ pc[0] = "compute"
    /\ computers[0].op = SomeOp("AdjustRelativeBase", <<Immediate(HaltAddr)>>)
    /\ computers[0].relative_base = InstrBase + HaltAddr
    /\ computers[0].ip = InstrAddr + 2


----------------------------------------------------------------------------
(* Output and input queues, the instruction pointer and the result         *)
(* queries, under SpecCaller.                                              *)

\* every output value machine id has written so far: those the caller has
\* taken, oldest first, then those still queued
OutputsWritten(id) == drained[id] \o computers[id].outputs

\* the step executes WriteOutput on an operand that names a value
WritingOutput(id) ==
    /\ Executing(id)
    /\ computers[id].op.kind = "WriteOutput"
    /\ OperandOK(computers[id], computers[id].op.params[1])

\* C21: the output queue is FIFO.  Executing WriteOutput(a) appends deref(a)
\* at the back of the queue and changes nothing else; consume_output()
\* removes and returns the oldest queued value, or returns none and leaves
\* the machine unchanged when the queue is empty; so what the caller has
\* taken followed by what is still queued is always the sequence of values
\* written, in the order written, each once.
OutputQueueIsFIFO ==
    [][\A id \in Ids :
        LET self == computers[id]
        IN /\ WritingOutput(id) =>
                /\ pc'[id] = "compute"
                /\ computers'[id] =
                      [self EXCEPT !.outputs = Append(@, ValueOf(self, self.op.params[1]))]
           /\ Called(id, "consume_output") =>
                /\ pc'[id] = "caller"
                /\ IF self.outputs = <<>>
                   THEN call'[id].ret = <<>> /\ computers'[id] = self
                   ELSE /\ call'[id].ret = <<Head(self.outputs)>>
                        /\ computers'[id] = [self EXCEPT !.outputs = Tail(@)]
           /\ OutputsWritten(id)' =
                 IF WritingOutput(id)
                 THEN Append(OutputsWritten(id), ValueOf(self, self.op.params[1]))
                 ELSE OutputsWritten(id)
    ]_vars

\* OutInOut given 8 has halted and the caller has taken the first two of its
\* four outputs one at a time
TookTwoOfFourOutputs ==
    /\ computers[0].state = "Halted"
    /\ call[0].name = "consume_output"
    /\ drained[0] = <<1, 2>>
    /\ computers[0].outputs = <<8, 3>>

\* C22: consume_output_buffer() returns the whole output queue in write
\* order and leaves it empty, changing nothing else; a call made right
\* after another returns the empty sequence; the queue is otherwise changed
\* only by WriteOutput and consume_output, so a value written between two
\* drains is returned by the second alone: after each drain the caller has
\* taken exactly what it had before followed by what was queued.
DrainReturnsAllAndEmpties ==
    [][\A id \in Ids :
        LET self == computers[id]
        IN /\ Called(id, "consume_output_buffer") =>
                /\ pc'[id] = "caller"
                /\ call'[id].ret = self.outputs
                /\ computers'[id] = [self EXCEPT !.outputs = <<>>]
                /\ drained'[id] = drained[id] \o self.outputs
                /\ call[id].name = "consume_output_buffer" => call'[id].ret = <<>>
           /\ computers'[id].outputs # self.outputs =>
                \/ WritingOutput(id)
                \/ Called(id, "consume_output")
                \/ Called(id, "consume_output_buffer")
    ]_vars

\* OutInOut: the outputs written before it blocked were taken earlier, and a
\* drain after it was resumed with 8 has just returned the two written since
SecondDrainReturnedTheRest ==
    /\ given[0].program = OutInOut
    /\ call[0].name = "consume_output_buffer"
    /\ call[0].ret = <<8, 3>>
    /\ drained[0] = <<1, 2, 8, 3>>
    /\ computers[0].outputs = <<>>

\* machine id as it would be had the caller never drained: every value
\* written is still queued
Undrained(id) == [computers[id] EXCEPT !.outputs = OutputsWritten(id)]

\* the step is a drain of machine id
Draining(id) ==
    Called(id, "consume_output") \/ Called(id, "consume_output_buffer")

\* C23: draining never affects the machine.  In any state consume_output()
\* and consume_output_buffer() return to the caller leaving state,
\* instruction pointer, memory, relative base, input queue and pending
\* instruction as they were; and the run goes on as that of the machine that
\* was never drained: put back what the caller has taken, and every fetch,
\* execution and caller operation takes that machine to the machine with
\* the values put back afterwards (same later outputs, same final memory).
DrainingNeverAffectsTheMachine ==
    [][\A id \in Ids :
        LET self == computers[id]
        IN /\ Draining(id) =>
                /\ pc'[id] = "caller"
                /\ computers'[id] = [self EXCEPT !.outputs = computers'[id].outputs]
                /\ Undrained(id)' = Undrained(id)
           /\ Fetching(id) => Undrained(id)' = read_next_instruction(Undrained(id))
           /\ Executing(id) => Undrained(id)' = execute(Undrained(id))
           /\ Called(id, "start") => Undrained(id)' = start(Undrained(id))
           /\ Called(id, "resume") => Undrained(id)' = resume(Undrained(id))
           /\ Called(id, "start_or_resume") => Undrained(id)' = start_or_resume(Undrained(id))
           /\ Called(id, "buffer_input") =>
                Undrained(id)' = buffer_input(Undrained(id), call'[id].args[1])
           /\ Called(id, "write") =>
                Undrained(id)' = write(Undrained(id), call'[id].args[1], call'[id].args[2])
    ]_vars

\* OutInOut was drained while it was blocked and then resumed with 8: it
\* halted with the memory and the later outputs of the undrained run
DrainedWhileBlockedThenHalted ==
    /\ given[0].program = OutInOut
    /\ computers[0].state = "Halted"
    /\ call[0].name = "resume"
    /\ drained[0] = <<1, 2>>
    /\ computers[0].outputs = <<8, 3>>
    /\ computers[0].memory = [OutInOut EXCEPT ![1] = 8]

\* the step runs the StoreInput held by machine id: its execution in the
\* loop, or its re-execution by resume
RunningStoreInput(id) ==
    /\ computers[id].op.kind = "StoreInput"
    /\ Executing(id) \/ (Resuming(id) /\ computers[id].inputs # <<>>)

\* C24: buffer_input(v) appends v at the back of the input queue and changes
\* nothing else, in whatever state it is called.  A StoreInput that finds a
\* value and names a cell removes the oldest queued value alone and stores
\* that value, so values are consumed one at a time in the order buffered;
\* and the queue is never changed by anything but buffer_input and a
\* StoreInput taking its head.
InputQueueIsFIFO ==
    [][\A id \in Ids :
        LET self == computers[id]
        IN /\ Called(id, "buffer_input") =>
                /\ pc'[id] = "caller"
                /\ computers'[id] = [self EXCEPT !.inputs = Append(@, call'[id].args[1])]
           /\ /\ RunningStoreInput(id)
              /\ self.inputs # <<>>
              /\ TargetOK(self, self.op.params[1])
              => computers'[id] =
                    [self EXCEPT !.inputs = Tail(@),
                                 !.state = "Running",
                                 !.memory = Written(@, TargetAddr(self, self.op.params[1]),
                                                    Head(self.inputs))]
           /\ computers'[id].inputs # self.inputs =>
                \/ Called(id, "buffer_input")
                \/ /\ RunningStoreInput(id)
                   /\ self.inputs # <<>>
                   /\ computers'[id].inputs = Tail(self.inputs)
    ]_vars

\* InTwoOutTwo was given 8 then 0 and wrote 8 then 0
ConsumedInOrderBuffered ==
    /\ given[0].program = InTwoOutTwo
    /\ computers[0].state = "Halted"
    /\ computers[0].inputs = <<>>
    /\ OutputsWritten(0) = <<8, 0>>
    /\ computers[0].memory = [InTwoOutTwo EXCEPT ![1] = 8, ![2] = 0]

\* instruction pointers a call is tried at, to see that it does not read it
IpProbes(self) == {0, self.ip + 1}

Moved(self, x) == [self EXCEPT !.ip = x]

\* none of the caller operations named reads the instruction pointer of
\* self: called at another instruction pointer each does and returns the
\* same
CallerOpsIgnoreIp(self) ==
    \A x \in IpProbes(self) :
        /\ \A v \in CallerVals : buffer_input(Moved(self, x), v) = Moved(buffer_input(self, v), x)
        /\ \A w \in CallerWrites :
              write(Moved(self, x), w[1], w[2]) = Moved(write(self, w[1], w[2]), x)
        /\ consume_output(Moved(self, x)).m = Moved(consume_output(self).m, x)
        /\ consume_output(Moved(self, x)).val = consume_output(self).val
        /\ consume_output_buffer(Moved(self, x)).m = Moved(consume_output_buffer(self).m, x)
        /\ consume_output_buffer(Moved(self, x)).val = consume_output_buffer(self).val
        /\ is_halted(Moved(self, x)) = is_halted(self)
        /\ is_awaiting_input(Moved(self, x)) = is_awaiting_input(self)

Jumps == {"JumpIfTrue", "JumpIfFalse"}

\* C25: the instruction pointer changes only in a fetch, which moves it
\* forward by one per word consumed (1 + arity words when an instruction is
\* decoded, at most that when the fetch faults; a fetch at the largest
\* word aborts the run), and in the execution of a jump whose condition
\* holds, which sets it to the jump's target.
\* buffer_input, write, consume_output, consume_output_buffer, is_halted and
\* is_awaiting_input neither change it nor depend on it, and neither does
\* the execution of any instruction that is not a jump.
IpMovesOnlyByFetchAndJump ==
    [][\A id \in Ids :
        LET self == computers[id]
        IN /\ computers'[id].ip # self.ip =>
                \/ Fetching(id)
                \/ /\ Executing(id) /\ self.op.kind \in Jumps
                   /\ pc'[id] # "aborted" /\ JumpTaken(self)
           /\ Fetching(id) =>
                \/ /\ self.ip <= computers'[id].ip
                   /\ computers'[id].ip <= self.ip + 1 + Arity("Add")
                \/ self.ip = IntcodeMax /\ pc'[id] = "aborted"
           /\ Decoded(id) =>
                computers'[id].ip = self.ip + 1 + Arity(computers'[id].op.kind)
           /\ Executing(id) /\ self.op.kind \in Jumps
              /\ pc'[id] # "aborted" /\ JumpTaken(self) =>
                computers'[id].ip = ValueOf(self, self.op.params[2])
           /\ pc[id] = "caller" => CallerOpsIgnoreIp(self)
           /\ Executing(id) /\ self.op.kind \notin Jumps =>
                \A x \in IpProbes(self) : execute(Moved(self, x)) = Moved(computers'[id], x)
    ]_vars

\* JumpOnInput given 8 jumped over its first Halt to the output at 7 and
\* halted at 9, and the caller has asked whether it halted
JumpedThenQueried ==
    /\ given[0].program = JumpOnInput
    /\ computers[0].state = "Halted"
    /\ computers[0].ip = 10
    /\ OutputsWritten(0) = <<5>>
    /\ call[0].name = "is_halted"
    /\ call[0].ret = <<TRUE>>

----------------------------------------------------------------------------
(* Several machines, under SpecTwin.                                       *)

\* the step is one of machine id: a call on it or a step of its loop
StepOf(id) == script'[id] # script[id]

\* C26: machines are isolated.  With two machines made from clones of one
\* program and driven in any interleaving of buffer_input, start, resume,
\* consume_output and consume_output_buffer, a call on one machine or a
\* step of its run leaves the other's memory, instruction pointer, relative
\* base, state, queues and pending instruction, and what the caller holds
\* of it, exactly as they were, and the program the clones were made
\* from is never changed.
MachinesAreIsolated ==
    [][/\ \A i \in Ids : \A j \in Ids \ {i} :
             StepOf(i) =>
                /\ computers'[j] = computers[j]
                /\ pc'[j] = pc[j]
                /\ call'[j] = call[j]
                /\ drained'[j] = drained[j]
       /\ given' = given
       /\ \A i \in Ids : \A j \in Ids : given[i].program = given[j].program
    ]_vars

\* of two machines made from OutInOut, one was given 8 and has halted with
\* 8 in its cell 0 while the other is still blocked, its memory the program
OneHaltedOtherBlocked ==
    /\ given[0].program = OutInOut
    /\ computers[0].state = "Halted"
    /\ computers[0].memory[1] = 8
    /\ computers[0].outputs = <<1, 2, 8, 3>>
    /\ computers[1].state = "AwaitingInput"
    /\ computers[1].inputs = <<>>
    /\ computers[1].outputs = <<1, 2>>
    /\ computers[1].memory = given[1].program

----------------------------------------------------------------------------
(* The examples of aoc-2019-09.                                            *)

\* addresses of the two cells the Quine counts in
QuineCounter == 100
QuineFlag == 101

\* the memory the Quine ends with: the program, zeroes up to the counter,
\* the counter at the program's length and the flag set
QuineFinalMemory ==
    [i \in 1..(QuineFlag + 1) |->
        IF i <= Len(Quine) THEN Quine[i]
        ELSE IF i = QuineCounter + 1 THEN Len(Quine)
        ELSE IF i = QuineFlag + 1 THEN 1 ELSE 0]

\* machine id is running the Quine as given, or has run it
RunsQuine(id) ==
    /\ given[id].program = Quine
    /\ nwrites = 0
    /\ computers[id].state # "Initial"

\* C28: relative-mode reads and writes beyond the program's extent work
\* together.  The 16-word program 109,1,204,-1,1001,100,1,100,1008,100,16,
\* 101,1006,101,0,99, once started, never faults and never blocks; what it
\* has written is at every moment a prefix of the program itself; and when
\* its run returns it is Halted, it has written the program word for word,
\* and its memory is the program followed by zeroes with the counter cells
\* at 100 and 101, which growth created, holding 16 and 1.
QuineOutputsItself ==
    \A id \in Ids :
        RunsQuine(id) =>
            /\ computers[id].state \in {"Running", "Halted"}
            /\ call[id].name \in {"start", "start_or_resume"} /\ call[id].from = "Initial" =>
                  pc[id] # "aborted"
            /\ Len(OutputsWritten(id)) <= Len(Quine)
            /\ OutputsWritten(id) = SubSeq(Quine, 1, Len(OutputsWritten(id)))
            /\ computers[id].ip < Len(Quine) =>
                  computers[id].relative_base \in
                      {Len(OutputsWritten(id)), Len(OutputsWritten(id)) + 1}
            /\ pc[id] = "caller" =>
                  /\ computers[id].state = "Halted"
                  /\ OutputsWritten(id) = Quine
                  /\ computers[id].memory = QuineFinalMemory

\* the Quine has halted with all sixteen outputs still queued
QuineHalted ==
    /\ RunsQuine(0)
    /\ pc[0] = "caller"
    /\ computers[0].state = "Halted"
    /\ computers[0].outputs = Quine
    /\ Len(computers[0].memory) = QuineFlag + 1

----------------------------------------------------------------------------
(* Word width and overflow, under SpecInstr.                               *)

\* C29: arithmetic never silently overflows.  A value passes through
\* WriteOutput unchanged, an Add or Mul whose exact result fits the word
\* stores exactly that, and an Add, Mul or AdjustRelativeBase whose exact
\* result does not fit the word stores nothing: memory and relative base
\* stay as they were and the run does not go on with a wrapped value.
ArithmeticNeverWraps ==
    [][\A id \in Ids :
        LET self == computers[id]
            kind == self.op.kind
            a == ValueOf(self, self.op.params[1])
            b == ValueOf(self, self.op.params[2])
            exact == CASE kind = "Add" -> a + b
                       [] kind = "Mul" -> a * b
                       [] OTHER -> self.relative_base + a
        IN /\ WritingOutput(id) => computers'[id].outputs = Append(self.outputs, a)
           /\ ExecutingBinary(id, {"Add", "Mul"}) =>
                IF InRange(exact) THEN Stores(id, exact)
                ELSE /\ pc'[id] = "aborted"
                     /\ computers'[id].memory = self.memory
           /\ /\ Executing(id)
              /\ kind = "AdjustRelativeBase"
              /\ OperandOK(self, self.op.params[1])
              /\ ~InRange(exact)
              => /\ pc'[id] = "aborted"
                 /\ computers'[id].relative_base = self.relative_base
    ]_vars

----------------------------------------------------------------------------
(* The result queries, under SpecCaller.                                   *)

\* the call returned v to the caller and left the machine as it was
Returned(id, v) ==
    /\ pc'[id] = "caller"
    /\ call'[id].ret = <<v>>
    /\ computers'[id] = computers[id]

\* C30 as stated: result_addr0() and result_last_output() fault in every
\* state other than Halted; on a Halted machine result_addr0() returns
\* memory[0] and result_last_output() returns the most recently written
\* output, and neither changes the machine.
ResultQueriesReturnOnceHalted ==
    [][\A id \in Ids :
        LET self == computers[id]
            written == OutputsWritten(id)
        IN /\ Called(id, "result_addr0") =>
                IF self.state # "Halted" THEN Faulted(id)
                ELSE Returned(id, WordAt(self, 0))
           /\ Called(id, "result_last_output") =>
                IF self.state # "Halted" THEN Faulted(id)
                ELSE written # <<>> => Returned(id, written[Len(written)])
    ]_vars

\* C30: result_addr0() and result_last_output() fault in every state other
\* than Halted.  On a Halted machine result_addr0() returns memory[0], and
\* result_last_output() returns the value at the back of the output queue,
\* which is the most recently written output, when the queue is not empty,
\* and faults when it is empty (nothing was written, or the caller has
\* drained everything); a query that returns leaves the machine unchanged.
ResultQueriesReadMemoryAndQueue ==
    [][\A id \in Ids :
        LET self == computers[id]
            written == OutputsWritten(id)
        IN /\ Called(id, "result_addr0") =>
                IF self.state # "Halted" THEN Faulted(id)
                ELSE Returned(id, WordAt(self, 0))
           /\ Called(id, "result_last_output") =>
                IF self.state # "Halted" \/ self.outputs = <<>> THEN Faulted(id)
                ELSE /\ Returned(id, self.outputs[Len(self.outputs)])
                     /\ call'[id].ret = <<written[Len(written)]>>
    ]_vars

\* OutInOut has halted, the caller has taken two of its four outputs, and
\* result_last_output() has returned the last one written
LastOutputAfterPartialDrain ==
    /\ given[0].program = OutInOut
    /\ computers[0].state = "Halted"
    /\ call[0].name = "result_last_output"
    /\ call[0].ret = <<3>>
    /\ drained[0] = <<1, 2>>
    /\ pc[0] = "caller"

----------------------------------------------------------------------------
(* The blocked machine and the end of the program, under SpecCaller.       *)

\* C38: a machine in AwaitingInput holds a StoreInput as its pending
\* instruction, and its input queue is empty when start() or resume()
\* returns and for as long as the caller has made no call since.  So resume() on a blocked machine
\* with values queued never fails with 'expect op to be loaded', runs that
\* StoreInput and no other instruction, and takes exactly the oldest value
\* from the queue, however many the caller buffered.
BlockedHoldsStoreInput ==
    /\ \A id \in Ids : computers[id].state # "AwaitingInput"
    /\ [][\A id \in Ids :
            LET self == computers[id]
                after == computers'[id]
            IN /\ after.state = "AwaitingInput" =>
                    /\ after.op.kind = "StoreInput"
                    /\ call'[id].name \in RunCalls /\ pc'[id] # "aborted" =>
                          after.inputs = <<>>
               /\ Resuming(id) /\ self.inputs # <<>> =>
                    /\ after.panicked # "expect op to be loaded"
                    /\ after.op = self.op
                    /\ after.inputs = Tail(self.inputs)
                    /\ after.outputs = self.outputs
                    /\ after.ip = self.ip
                    /\ TargetOK(self, self.op.params[1]) =>
                          after.memory = Written(self.memory,
                                                 TargetAddr(self, self.op.params[1]),
                                                 Head(self.inputs))
       ]_vars

\* OutInOut blocked, the caller buffered 8 and 0 and resumed: the blocked
\* StoreInput took the 8, the run halted and the 0 is still queued
ResumeTookOneOfTwo ==
    /\ given[0].program = OutInOut
    /\ call[0].name = "resume"
    /\ pc[0] = "caller"
    /\ computers[0].state = "Halted"
    /\ computers[0].inputs = <<0>>
    /\ computers[0].memory[1] = 8

\* C39: a program never halts by running off its end.  A fetch at an
\* instruction pointer beyond the memory extent aborts the run, with the
\* fault 'Unknown opcode' for the word 0 read there (at the largest word the
\* build with overflow checks faults on advancing the pointer instead), and
\* memory is not grown by it; and the state becomes Halted only in the
\* execution of a Halt that was decoded from a word of opcode 99 held in
\* memory just before the instruction pointer.
NeverHaltsOffTheEnd ==
    [][\A id \in Ids :
        LET self == computers[id]
            after == computers'[id]
        IN /\ Fetching(id) /\ self.ip >= Len(self.memory) =>
                /\ pc'[id] = "aborted"
                /\ after.state = "Running"
                /\ after.memory = self.memory
                /\ \/ after.panicked = "Unknown opcode"
                   \/ self.ip = IntcodeMax /\ overflow_checks
           /\ after.state = "Halted" /\ self.state # "Halted" =>
                /\ Executing(id)
                /\ self.state = "Running"
                /\ self.op.kind = "Halt"
                /\ self.ip >= 1 /\ self.ip <= Len(self.memory)
                /\ opcode(self.memory[self.ip]) = OP_HALT
    ]_vars

\* a jump sent the run to the first address beyond its memory, and the
\* fetch there aborted it on the opcode 0
RanOffTheEnd ==
    /\ pc[0] = "aborted"
    /\ computers[0].panicked = "Unknown opcode"
    /\ computers[0].state = "Running"
    /\ computers[0].op.kind \in Jumps
    /\ computers[0].ip = Len(computers[0].memory) + 1

----------------------------------------------------------------------------
(* The text helpers, under SpecAscii.                                      *)

\* every element is a number a u8 holds
AllU8(xs) == \A k \in DOMAIN xs : 0 <= xs[k] /\ xs[k] <= U8Max

\* every element is an ASCII code
AllAscii(xs) == \A k \in DOMAIN xs : 0 <= xs[k] /\ xs[k] < 128

----------------------------------------------------------------------------
(* The network drivers.                                                    *)

\* the packets queued for machine d in history s from entry k on, oldest
\* first: the triples addressed to d that the driver took from the
\* machines, and for machine 0 the packets the NAT queued
RECURSIVE SentFrom(_, _, _)
SentFrom(s, d, k) ==
    IF k > Len(s) THEN <<>>
    ELSE LET e == s[k]
         IN (IF e.ev = "out" /\ Len(e.vals) = 3 /\ e.vals[1] = d
             THEN <<(<<e.vals[2], e.vals[3]>>)>>
             ELSE IF e.ev = "nat" /\ d = 0 THEN <<e.vals>> ELSE <<>>)
            \o SentFrom(s, d, k + 1)

\* what machine d was given at its turns, one entry per turn
RECURSIVE TurnsFrom(_, _, _)
TurnsFrom(s, d, k) ==
    IF k > Len(s) THEN <<>>
    ELSE (IF s[k].ev = "in" /\ s[k].id = d /\ s[k].round >= 1 THEN <<s[k]>> ELSE <<>>)
         \o TurnsFrom(s, d, k + 1)

\* the packets among them
RECURSIVE PacketsOf(_, _)
PacketsOf(turns, k) ==
    IF k > Len(turns) THEN <<>>
    ELSE (IF Len(turns[k].vals) = 2 THEN <<turns[k].vals>> ELSE <<>>)
         \o PacketsOf(turns, k + 1)

Sent(d) == SentFrom(script, d, 1)
Turns(d) == TurnsFrom(script, d, 1)
Got(d) == PacketsOf(Turns(d), 1)

DriverRuns == locals.at \notin {"returned", "panicked"}

\* the driver gives machine id something
Feeding(id) ==
    /\ Len(script') = Len(script) + 1
    /\ script'[Len(script')].ev = "in"
    /\ script'[Len(script')].id = id

\* C32: After every step of the network driver that takes output, gives
\* input or changes a buffer, and leaves the driver running, the packets
\* machine d has been given followed by the packets waiting in d's inbound
\* buffer are exactly the packets queued for d, in the order they were
\* routed; a machine is given something once per round, either one packet,
\* X then Y at the end of its input queue, or the single value that stands
\* for an empty buffer; and nothing else puts a value into a machine's
\* input queue.
PacketsRoutedOnceInOrder ==
    [][/\ (DriverRuns' /\ (script' # script \/ locals'.buffers # locals.buffers)) =>
            \A d \in NetIds :
               PacketsOf(TurnsFrom(script', d, 1), 1) \o locals'.buffers[d]
                  = SentFrom(script', d, 1)
       /\ \A id \in NetIds :
             IF Feeding(id)
             THEN /\ computers'[id].inputs =
                        computers[id].inputs \o script'[Len(script')].vals
                  /\ \A k \in DOMAIN script :
                        ~(/\ script[k].ev = "in"
                          /\ script[k].id = id
                          /\ script[k].round = script'[Len(script')].round)
                  /\ \/ Len(script'[Len(script')].vals) = 2
                     \/ script'[Len(script')].vals \in {<<EMPTY_BUFFER>>, <<id>>}
             ELSE \/ computers'[id].inputs = computers[id].inputs
                  \/ /\ computers[id].inputs # <<>>
                     /\ computers'[id].inputs = Tail(computers[id].inputs)
      ]_vars

\* machine 1 opened with two packets for itself, and was given them one per
\* round in the order it sent them, while machine 0 was given none
TwoPacketsInTwoRounds ==
    /\ DriverRuns
    /\ Got(1) = <<(<<5, 6>>), (<<7, 8>>)>>
    /\ Got(0) = <<>>
    /\ Turns(1)[1].vals = <<5, 6>>
    /\ Turns(1)[2].vals = <<7, 8>>
    /\ computers[1].inputs = <<>>
\* C33: In the network driver a machine is started with exactly its own
\* address in its input queue and nothing consumed before; at its turn a
\* machine whose inbound buffer is empty is given the single value -1; and
\* every resume the driver issues finds the input queue non-empty, so it
\* never fails on its input-queue precondition.
DriverAlwaysFeedsBeforeResume ==
    [][\A id \in NetIds :
          /\ Called(id, "start") =>
                /\ computers[id].inputs = <<id>>
                /\ computers[id].state = "Initial"
                /\ call[id].name = "buffer_input"
          /\ (Feeding(id) /\ locals.round >= 1 /\ locals.buffers[id] = <<>>) =>
                /\ computers'[id].inputs = computers[id].inputs \o <<EMPTY_BUFFER>>
                /\ locals'.buffers = locals.buffers
          /\ Called(id, "resume") =>
                /\ computers[id].inputs # <<>>
                /\ computers'[id].panicked # "assertion failed: 0 != inputs.len()"
      ]_vars

\* in the second round machine 1, whose buffer was empty, was given -1 and
\* resumed, and has consumed it
ResumedOnEmptyBuffer ==
    /\ locals.round = 2 /\ locals.i = 1 /\ locals.at = "running"
    /\ call[1].name = "resume"
    /\ script[Len(script)] = In(1, 2, <<EMPTY_BUFFER>>)
    /\ Sent(1) = <<>>
    /\ computers[1].inputs = <<>>
\* the NAT queues its stored packet for machine 0
NatForwards ==
    /\ Len(script') = Len(script) + 1
    /\ script'[Len(script')].ev = "nat"

\* C34: In do_part2 the NAT forwards its stored packet to machine 0 only
\* when the network is idle: at that moment every inbound buffer is empty
\* and no machine holds output that has not been routed yet.
NatForwardsOnlyWhenIdle ==
    [][NatForwards =>
          /\ locals.fn = "do_part2"
          /\ \A d \in NetIds : locals.buffers[d] = <<>>
          /\ \A id \in NetIds : computers[id].outputs = <<>>
      ]_vars
\* the packets addressed to the NAT in `output`, oldest first
ForNat(output) ==
    LET cs == SelectSeq(chunks(output, 3), LAMBDA c : Len(c) = 3 /\ c[1] = NatAddress)
    IN [k \in 1..Len(cs) |-> <<cs[k][2], cs[k][3]>>]

\* the packets the NAT has queued for machine 0 so far
NatDelivered ==
    LET es == SelectSeq(script, LAMBDA e : e.ev = "nat")
    IN [k \in 1..Len(es) |-> es[k].vals]

\* the NAT is about to deliver its packet: the round is over, nothing was
\* routed in it, every buffer is empty and the NAT holds a packet
NatAboutToDeliver ==
    /\ locals.fn = "do_part2"
    /\ locals.at = "idle"
    /\ ~locals.sent
    /\ \A d \in NetIds : locals.buffers[d] = <<>>
    /\ locals.nat # None

\* C35: In do_part2 the NAT holds the most recent packet sent to address
\* 255 since it last forwarded one, a later one replacing an earlier one;
\* when it is about to deliver a packet whose Y equals the Y of the packet
\* it delivered immediately before, do_part2 returns that Y instead, and in
\* every other case it delivers the packet to machine 0 and forgets it;
\* do_part2 returns in no other way, and nothing happens after it returned.
NatKeepsLatestAndStopsOnRepeat ==
    [][/\ locals.fn = "do_part2" =>
            /\ Draining(locals.i) /\ locals'.at # "panicked" =>
                  locals'.nat =
                     IF ForNat(computers[locals.i].outputs) = <<>> THEN locals.nat
                     ELSE Some(ForNat(computers[locals.i].outputs)
                                  [Len(ForNat(computers[locals.i].outputs))])
            /\ ~Draining(locals.i) /\ ~NatAboutToDeliver => locals'.nat = locals.nat
            /\ NatAboutToDeliver =>
                  LET y == locals.nat[1][2]
                      repeat == /\ NatDelivered # <<>>
                                /\ NatDelivered[Len(NatDelivered)][2] = y
                  IN /\ locals'.nat = None
                     /\ repeat => /\ locals'.at = "returned"
                                  /\ locals'.result = Some(y)
                                  /\ script' = script
                                  /\ locals'.buffers = locals.buffers
                     /\ ~repeat => /\ locals'.at = "drain"
                                   /\ NatDelivered' = Append(NatDelivered, locals.nat[1])
                                   /\ locals'.buffers =
                                         [locals.buffers EXCEPT ![0] = <<locals.nat[1]>>]
            /\ (locals'.at = "returned" /\ locals.at # "returned") => NatAboutToDeliver
            /\ ~NatAboutToDeliver => NatDelivered' = NatDelivered
       /\ locals.at # "returned"
      ]_vars

\* machine 1 opened with two packets for the NAT; the NAT delivered the
\* second, machine 0 sent it back to the NAT, and do_part2 returned its Y
ReturnedRepeatedY ==
    /\ locals.fn = "do_part2"
    /\ locals.at = "returned"
    /\ locals.result = Some(8)
    /\ NatDelivered = <<(<<7, 8>>)>>
    /\ drained[1] = <<NatAddress, 5, 6, NatAddress, 7, 8>>
    /\ drained[0] = <<NatAddress, 7, 8>>
----------------------------------------------------------------------------
(* The earlier variants of the machine.                                    *)

\* the day-05 machine ran to its Halt and compute() returned
Day05Halted ==
    /\ pc[Day05] = "caller"
    /\ call[Day05].name = "compute"
    /\ computers[Day05].halted
    /\ ~Panicked(computers[Day05])

\* start() of the final machine returned
FinalReturned == pc[Final] = "caller" /\ call[Final].name = "start"

\* C37: Whenever the day-05 machine ran a program on an input list to its
\* Halt without a fault, the final machine given the same program with the
\* same inputs buffered before start does not fault, and when its start
\* returns it is Halted with the same sequence of outputs and the same
\* values in the cells of the program.
FinalExtendsDay05 ==
    Day05Halted =>
        /\ pc[Final] # "aborted"
        /\ FinalReturned =>
              /\ computers[Final].state = "Halted"
              /\ computers[Final].outputs = computers[Day05].outputs
              /\ SubSeq(computers[Final].memory, 1, Len(given[Final].program))
                    = computers[Day05].memory
\* a new chain is built for the next permutation
NewChain == locals.at = "permutations" /\ locals'.at = "while"

\* the permutation is scored
Scoring == locals.at = "while" /\ locals'.at = "permutations"

\* C36: In max_thruster, within one permutation, an amplifier is given
\* input only at its turn and only at the end of its input queue: at its
\* first turn its phase phase_sequence[k] followed by the signal, at every
\* later turn the signal alone; the signal is 0 at the very first turn of
\* the permutation, which is amplifier 0's, and at every other turn it is
\* the one output that the segment just run, the segment of amplifier
\* (k-1) mod n, produced; and the value scored for the permutation, once
\* all amplifiers are Halted, is the output of the last segment run.
AmplifierInputsArePhaseThenSignals ==
    [][/\ \A k \in AmpIds :
             IF Feeding(k)
             THEN LET vals == script'[Len(script')].vals
                      first == \A j \in DOMAIN script :
                                  ~(script[j].ev = "in" /\ script[j].id = k)
                      signal == vals[Len(vals)]
                  IN /\ computers'[k].inputs = computers[k].inputs \o vals
                     /\ computers[k].outputs = <<>>
                     /\ vals = IF first THEN <<locals.phase_sequence[k + 1], signal>>
                               ELSE <<signal>>
                     /\ IF script = <<>> THEN k = 0 /\ signal = 0
                        ELSE /\ script[Len(script)].ev = "out"
                             /\ script[Len(script)].id = (k - 1) % Len(locals.amps)
                             /\ script[Len(script)].vals = <<signal>>
             ELSE \/ computers'[k].inputs = computers[k].inputs
                  \/ /\ computers[k].inputs # <<>>
                     /\ computers'[k].inputs = Tail(computers[k].inputs)
                  \/ NewChain /\ computers'[k].inputs = <<>>
       /\ Scoring =>
             /\ AllHalted
             /\ script # <<>>
             /\ script[Len(script)].ev = "out"
             /\ LET final_output == script[Len(script)].vals[1]
                IN locals'.max =
                      IF locals.max = None \/ final_output > locals.max[1]
                      THEN Some(final_output) ELSE locals.max
      ]_vars

\* the feedback program on phases (6, 5), the last permutation of 5, 6:
\* each amplifier got its phase once, then signals, every signal the
\* output of the segment before, and max_thruster returned the last output
FeedbackChainScored ==
    /\ locals.at = "returned"
    /\ locals.initial = Feedback
    /\ locals.phase_sequence = <<6, 5>>
    /\ script = <<In(0, 0, <<6, 0>>), Out(0, <<2>>), In(1, 0, <<5, 2>>), Out(1, <<5>>),
                  In(0, 0, <<5>>), Out(0, <<12>>), In(1, 0, <<12>>), Out(1, <<25>>)>>
    /\ locals.result = Some(25)
====
